---- MODULE Spec2Model ----
(***************************************************************************)
(* A model of the xbloom client library: the packet codec                  *)
(* (protocol/builder.py, protocol/parser.py, protocol/constants.py), the   *)
(* notification path and the status state machine of XBloomClient          *)
(* (core/client.py), the recipe payload encoder (models/recipes.py) and    *)
(* the two brew workflows of XBloomClient.                                 *)
(*                                                                         *)
(* Representation.  A bytes value is a sequence of integers 0..255.  A     *)
(* Python str made of ASCII characters is the sequence of its code points. *)
(* A 32-bit float that the code only moves around is the four bytes of its *)
(* little-endian IEEE-754 encoding.  A temperature is held in tenths of a   *)
(* degree, a bean weight in tenths of a gram, a flow rate in hundredths,   *)
(* and asyncio time in ticks of half a second.                             *)
(***************************************************************************)
EXTENDS Integers, Sequences, FiniteSets, TLC

VARIABLES
    \* ---- protocol round trip (builder.py / parser.py) -------------------
    c_pc,             \* "start" | "built" | "parsed"
    c_fields,         \* the arguments given to build_command_raw
    c_packet,         \* the bytes it returned
    c_parsed,         \* what parse_response returned for them
    \* ---- XBloomClient ---------------------------------------------------
    is_connected,     \* self._connection.is_connected
    subscribed,       \* a notification callback is registered on NOTIFY_UUID
    status,           \* self._status
    callbacks,        \* self._callbacks: the observers, in registration order
    writes,           \* every write_command call made on the transport
    \* ---- _on_notification: one call in progress --------------------------
    scanning,         \* TRUE while the while loop of _on_notification runs
    raw_data,         \* its local raw_data
    offset,           \* its local offset (0-based, as in the code)
    layout,           \* history: the segments raw_data was assembled from
    applied,          \* history: the packets dispatched during this call, each
                      \* with the status before and after it and the observers
    called,           \* history: the observers invoked during this call
    before,           \* history: self._status when this call started
    ndeliv,           \* notifications delivered so far (the wall clock)
    \* ---- brew / brew_without_grinding: one call in progress --------------
    pc,               \* where the coroutine is
    method,           \* "brew" | "brew_without_grinding"
    recipe,           \* its argument recipe
    wait_for_completion,
    timeout,          \* its argument timeout, in ticks
    now,              \* asyncio.get_event_loop().time(), in ticks
    start_time,       \* its local start_time
    brewing_started,  \* its local brewing_started
    result,           \* what the call returned or raised
    polls,            \* history: what each poll of the wait loop observed
    \* ---- the session and its caller ---------------------------------------
    args,             \* the arguments of the _send_command or robust connect
                      \* call in progress
    attempt,          \* the loop variable of the robust connect in progress
    cleanup_on_disconnect,  \* self._cleanup_on_disconnect
    held,             \* what a reader got from the status property
    seen,             \* history: the value of the status when the reader got it
    read_subscribed,  \* a notification callback is registered on READ_CHAR
    connects,         \* history: the connect() calls made so far
    trace,            \* history: the calls the connect() or disconnect() in
                      \* progress, or the last one, made on the transport
    waited,           \* history: the sleeps of the robust connect since its
                      \* last attempt, in seconds
    reported,         \* history: a frame has said that the brewer runs since
                      \* the waiting call in progress wrote its execute command
    shown,            \* history: status.grinder.is_running has been True since
                      \* the manual execution in progress started the grinder
    \* ---- XBloomManualRecipe.execute ---------------------------------------
    initial_weight,   \* initial_weight
    total_poured,     \* total_poured, in tenths of a gram
    pour_index,       \* the 1-based position of the for loop in self.pours
    \* ---- recipes built, encoded and parsed --------------------------------
    p_pc,             \* position of the recipe run
    p_in,             \* the constructor's arguments, or parse_recipe_json's dict
    made,             \* what the constructor or the parser returned or raised
    p_out,            \* what build_recipe_payload returned for made
    p_in2,            \* a second input, to compare with the first
    made2,            \* what was made of p_in2
    p_out2            \* what build_recipe_payload returned for made2

codecVars  == <<c_pc, c_fields, c_packet, c_parsed>>
clientVars == <<is_connected, subscribed, status, callbacks, writes>>
notifVars  == <<scanning, raw_data, offset, layout, applied, called, before, ndeliv>>
brewVars   == <<pc, method, recipe, wait_for_completion, timeout, now,
               start_time, brewing_started, result, polls>>
manualVars == <<initial_weight, total_poured, pour_index>>
pureVars   == <<p_pc, p_in, made, p_out, p_in2, made2, p_out2>>
extRest    == <<args, attempt, cleanup_on_disconnect, held, seen,
               read_subscribed, connects, trace, waited, manualVars, pureVars>>
extVars    == <<extRest, reported, shown>>
vars       == <<codecVars, clientVars, notifVars, brewVars, extVars>>

None == [none |-> TRUE]

(***************************************************************************)
(* Bytes and integers                                                      *)
(***************************************************************************)
RECURSIVE BitXor(_, _)
BitXor(a, b) ==
    IF a = 0 THEN b
    ELSE IF b = 0 THEN a
    ELSE (((a % 2) + (b % 2)) % 2) + (2 * BitXor(a \div 2, b \div 2))

RECURSIVE Pow2(_)
Pow2(n) == IF n = 0 THEN 1 ELSE 2 * Pow2(n - 1)

\* struct.pack('<H', v), for v in 0..65535
PackH(v) == <<v % 256, (v \div 256) % 256>>

\* struct.pack('<I', v), for v in 0..2^32-1
PackI(v) == <<v % 256, (v \div 256) % 256, (v \div 65536) % 256,
              (v \div 16777216) % 256>>

\* struct.unpack('<H', b)[0], for a 2-byte b
UnpackH(b) == b[1] + 256 * b[2]

\* struct.unpack('<I', b)[0], for a 4-byte b (the model checker's integers
\* end at 2^31 - 1: the model reads no larger value)
UnpackI(b) == b[1] + 256 * b[2] + 65536 * b[3] + 16777216 * b[4]

\* struct.unpack('<I', b)[0] > n for a 4-byte b and 0 <= n < 65536, decided
\* without forming a number beyond the model checker's integers
U32Exceeds(b, n) == b[3] # 0 \/ b[4] # 0 \/ UnpackH(b) > n

\* Python's data[lo:hi] for 0 <= lo, 0 <= hi: the bytes at 0-based lo..hi-1,
\* cut at the end of data, empty when hi <= lo.
Slice(data, lo, hi) ==
    LET h == IF hi > Len(data) THEN Len(data) ELSE hi
    IN  IF h <= lo THEN <<>> ELSE SubSeq(data, lo + 1, h)

\* Python's data[lo:-2] and data[:-2]
SliceToCrc(data, lo) == Slice(data, lo, IF Len(data) < 2 THEN 0 ELSE Len(data) - 2)

\* Python's data[-2:]
LastTwo(data) == Slice(data, IF Len(data) < 2 THEN 0 ELSE Len(data) - 2, Len(data))

(***************************************************************************)
(* protocol/constants.py                                                   *)
(***************************************************************************)
CrcPoly == 33800           \* 0x8408

\* the inner loop: n more of for _ in range(8)
RECURSIVE CrcBits(_, _)
CrcBits(crc, n) ==
    IF n = 0 THEN crc
    ELSE IF crc % 2 = 1
         THEN CrcBits(BitXor(crc \div 2, CrcPoly), n - 1)
         ELSE CrcBits(crc \div 2, n - 1)

\* the outer loop from byte i on (the test crc >= 0, which always holds, has
\* the accumulator evaluated at every byte rather than at the end)
RECURSIVE CrcFrom(_, _, _)
CrcFrom(crc, data, i) ==
    IF i > Len(data) \/ crc < 0 THEN crc
    ELSE CrcFrom(CrcBits(BitXor(crc, data[i]), 8), data, i + 1)

crc16(data) == CrcFrom(0, data, 1)

\* XBloomCommand members the model uses
APP_RECIPE_EXECUTE     == 8002
APP_RECIPE_SEND_MANUAL == 8004
APP_RECIPE_SEND_AUTO   == 8001
APP_SET_BYPASS         == 8102
APP_SET_CUP            == 8104

\* XBloomResponse: every member's value
XBloomResponse ==
    { 8204, 8203, 40510, 9005, 40502, 8007, 8107, 9010, 8108, 40520, 8022,
      40527, 40511, 10507, 20501, 50038, 50039, 40526, 8111, 40525, 11512,
      11510, 11518, 11511, 40512, 40513, 40517, 40522, 9003, 9009, 8105,
      8106, 40505, 40507, 9001, 9000, 9002, 8103, 8023, 40521, 8011, 8009,
      9006, 9004, 9008, 40501, 8113, 40515, 9011, 9012, 8015, 40523, 4508 }

RD_MachineInfo         == 40521
RD_GearReport          == 40505
RD_CURRENT_WEIGHT2     == 20501
RD_BREWER_TEMPERATURE  == 8108
RD_GRINDER_BEGIN       == 9003
RD_Grinder_Stop        == 40507
RD_BREWER_BEGIN        == 9005
RD_Brewer_Stop         == 40511
RD_BLOOM               == 40510
RD_BREWER_PAUSE        == 9010
RD_BREWER_COFFEE_START == 40502
RD_WATER_VOLUME        == 40523
RD_IN_BREWER           == 9001
RD_ENJOY               == 40512

(***************************************************************************)
(* protocol/builder.py                                                     *)
(***************************************************************************)
HeaderTag == 88            \* 0x58

\* the packet before its CRC, as both builders assemble it
PacketHead(command, body, type_code, device_id) ==
    <<HeaderTag, device_id, type_code>> \o PackH(command)
        \o PackI(12 + Len(body)) \o <<1>> \o body

build_command_raw(command, data, type_code, device_id) ==
    LET packet == PacketHead(command, data, type_code, device_id)
    IN  packet \o PackH(crc16(packet))

RECURSIVE PackInts(_)
PackInts(data) ==
    IF data = <<>> THEN <<>> ELSE PackI(Head(data)) \o PackInts(Tail(data))

build_command(command, data, type_code, device_id) ==
    LET packet == PacketHead(command, PackInts(data), type_code, device_id)
    IN  packet \o PackH(crc16(packet))

(***************************************************************************)
(* protocol/parser.py                                                      *)
(***************************************************************************)
HexDigits == <<"0", "1", "2", "3", "4", "5", "6", "7", "8", "9",
               "a", "b", "c", "d", "e", "f">>

\* bytes.hex()
RECURSIVE Hex(_)
Hex(data) ==
    IF data = <<>> THEN <<>>
    ELSE <<HexDigits[(Head(data) \div 16) + 1], HexDigits[(Head(data) % 16) + 1]>>
             \o Hex(Tail(data))

parse_response(data) ==
    IF Len(data) < 12 THEN None
    ELSE [ header    |-> Hex(Slice(data, 0, 3)),
           command   |-> IF Len(data) >= 5 THEN UnpackH(Slice(data, 3, 5)) ELSE 0,
           data      |-> IF Len(data) > 10 THEN SliceToCrc(data, 8) ELSE <<>>,
           valid_crc |-> (UnpackH(LastTwo(data)) = crc16(SliceToCrc(data, 0))) ]


\* bytes.fromhex(h)
HexValue(ch) == (CHOOSE i \in 1..16 : HexDigits[i] = ch) - 1

RECURSIVE FromHex(_)
FromHex(h) ==
    IF Len(h) < 2 THEN <<>>
    ELSE <<16 * HexValue(h[1]) + HexValue(h[2])>> \o FromHex(Tail(Tail(h)))

(***************************************************************************)
(* The protocol round trip: build_command_raw or build_command, then       *)
(* parse_response on the bytes it returned.                                *)
(***************************************************************************)
CodecCommands  == {0, 1, 255, 256, 4506, 9003, 40521, 65535}
CodecDeviceIds == {0, 1, 255}
CodecTypeCodes == {0, 1, 2, 255}
CodecPayloads  == {<<>>, <<0>>, <<88>>, <<255, 0>>, <<1, 2, 3, 4, 5>>}
CodecIntLists  == {<<>>, <<0>>, <<2147483647>>, <<1, 256>>}

CodecInputs ==
    [command : CodecCommands, device_id : CodecDeviceIds,
     type_code : CodecTypeCodes, raw : {TRUE}, data : CodecPayloads]
    \cup
    [command : CodecCommands, device_id : CodecDeviceIds,
     type_code : CodecTypeCodes, raw : {FALSE}, data : CodecIntLists]

\* the payload bytes the packet carries for the given arguments
PayloadOf(f) == IF f.raw THEN f.data ELSE PackInts(f.data)

CodecBuild ==
    /\ c_pc = "start"
    /\ c_packet' = IF c_fields.raw
                   THEN build_command_raw(c_fields.command, c_fields.data,
                                          c_fields.type_code, c_fields.device_id)
                   ELSE build_command(c_fields.command, c_fields.data,
                                      c_fields.type_code, c_fields.device_id)
    /\ c_pc' = "built"
    /\ UNCHANGED <<c_fields, c_parsed>>

CodecParse ==
    /\ c_pc = "built"
    /\ c_parsed' = parse_response(c_packet)
    /\ c_pc' = "parsed"
    /\ UNCHANGED <<c_fields, c_packet>>

(***************************************************************************)
(* models/types.py: DeviceStatus and its parts, as constructed             *)
(***************************************************************************)
UNKNOWN  == "unknown"
IDLE     == "idle"
GRINDING == "grinding"
BREWING  == "brewing"
PAUSED   == "paused"
ERROR    == "error"
SLEEPING == "sleeping"
DeviceState == {UNKNOWN, IDLE, GRINDING, BREWING, PAUSED, ERROR, SLEEPING}

GrinderStatus == [is_running |-> FALSE, speed |-> 0, size |-> 0, position |-> 0]

\* temperatures in tenths of a degree: 0.0 and 92.0
BrewerStatus ==
    [is_running |-> FALSE, temperature |-> 0, target_temperature |-> 920, mode |-> 0]

\* weight: the float as struct.pack('<f', weight) gives it (0.0 here)
ScaleStatus == [weight |-> <<0, 0, 0, 0>>, is_tared |-> FALSE]

\* last_update: the wall clock at construction is 0
DeviceStatus ==
    [ state          |-> UNKNOWN,
      connected      |-> FALSE,
      grinder        |-> GrinderStatus,
      brewer         |-> BrewerStatus,
      scale          |-> ScaleStatus,
      serial_number  |-> <<>>,
      model          |-> <<>>,
      version        |-> <<>>,
      water_level_ok |-> FALSE,
      water_volume   |-> 0,
      last_update    |-> 0 ]

(***************************************************************************)
(* Conversions used by XBloomClient._handle_response                       *)
(***************************************************************************)
\* bytes.decode('utf-8', errors='ignore') on bytes that are ASCII or can start
\* no UTF-8 sequence (0xF8..0xFF): the ASCII bytes, the others dropped.  The
\* model feeds no other bytes to it.
DecodeIgnore(b) == SelectSeq(b, LAMBDA x : x < 128)

\* str.strip('\x00')
RECURSIVE StripLeft(_)
StripLeft(s) == IF s # <<>> /\ Head(s) = 0 THEN StripLeft(Tail(s)) ELSE s

RECURSIVE StripRight(_)
StripRight(s) ==
    IF s # <<>> /\ s[Len(s)] = 0 THEN StripRight(SubSeq(s, 1, Len(s) - 1)) ELSE s

StripNul(s) == StripRight(StripLeft(s))

\* the biased exponent of the float packed little-endian in the 4 bytes b
F32Exponent(b) == 2 * (b[4] % 128) + (b[3] \div 128)

\* whether that float is an infinity or a NaN, on which int() raises
\* OverflowError or ValueError
F32NotFinite(b) == F32Exponent(b) = 255

\* int(struct.unpack('<f', b)[0]) for a finite float: the value truncated
\* toward zero
F32ToInt(b) ==
    LET sign == b[4] \div 128
        e    == F32Exponent(b)
        m    == 65536 * (b[3] % 128) + 256 * b[2] + b[1]
        mag  == IF e < 127 THEN 0
                ELSE IF e >= 150 THEN (8388608 + m) * Pow2(e - 150)
                ELSE (8388608 + m) \div Pow2(150 - e)
    IN  IF sign = 1 THEN 0 - mag ELSE mag


(***************************************************************************)
(* XBloomClient._handle_response                                           *)
(***************************************************************************)
\* The RD_MachineInfo arm.  Its assignments run in order inside a try whose
\* except passes: payload[34] raises IndexError on a 34-byte payload, after
\* the four assignments before it and before the water volume.
HandleMachineInfo(st, payload) ==
    IF Len(payload) >= 34
    THEN LET s1 == [st EXCEPT
                      !.serial_number  = StripNul(DecodeIgnore(Slice(payload, 0, 13))),
                      !.model          = StripNul(DecodeIgnore(Slice(payload, 13, 19))),
                      !.version        = StripNul(DecodeIgnore(Slice(payload, 19, 29))),
                      !.water_level_ok = (payload[34] = 1)]
         IN  IF Len(payload) < 35 THEN s1
             ELSE IF Len(payload) >= 37
                  THEN [s1 EXCEPT !.water_volume = payload[37]]
                  ELSE s1
    ELSE st

\* The RD_WATER_VOLUME arm.  int() of an infinity or a NaN raises, and the
\* exception leaves _handle_response before the assignment.
HandleWaterVolume(st, payload) ==
    IF Len(payload) >= 4
    THEN LET bits == Slice(payload, 0, 4)
         IN  IF F32NotFinite(bits) THEN st
             ELSE [st EXCEPT !.water_volume = F32ToInt(bits)]
    ELSE st

\* The RD_IN_BREWER arm: float(temperature) degrees, in tenths.
HandleInBrewer(st, payload) ==
    IF Len(payload) >= 12
    THEN [st EXCEPT !.brewer.temperature = 10 * UnpackI(Slice(payload, 4, 8)),
                    !.brewer.is_running  = TRUE,
                    !.state              = BREWING]
    ELSE st

\* The arms that take no payload.
\* a variant that leaves the grinder flag alone
HandleGrinderBeginStateOnly(st) == [st EXCEPT !.state = GRINDING]

HandleGrinderBegin(st) == [st EXCEPT !.grinder.is_running = TRUE, !.state = GRINDING]

\* a variant that forgets the operational state
HandleGrinderStopKeepsState(st) == [st EXCEPT !.grinder.is_running = FALSE]

HandleGrinderStop(st) == [st EXCEPT !.grinder.is_running = FALSE, !.state = IDLE]

HandleBrewerBegin(st) == [st EXCEPT !.brewer.is_running = TRUE, !.state = BREWING]

\* a variant that takes the end of a brew for the device going to sleep
HandleBrewerStopSleeps(st) == [st EXCEPT !.brewer.is_running = FALSE, !.state = SLEEPING]

HandleBrewerStop(st) == [st EXCEPT !.brewer.is_running = FALSE, !.state = IDLE]

HandleBloom(st) == [st EXCEPT !.state = BREWING]

\* a variant that treats a pause as a stop
HandleBrewerPauseAsStop(st) == [st EXCEPT !.state = IDLE]

HandleBrewerPause(st) == [st EXCEPT !.state = PAUSED]

HandleCoffeeStart(st) == [st EXCEPT !.brewer.is_running = TRUE, !.state = BREWING]

\* The status after _handle_response(response, data), response a member of
\* XBloomResponse.
handle_response(st, response, data) ==
    LET payload == IF Len(data) > 12 THEN SliceToCrc(data, 10) ELSE <<>>
    IN  CASE response = RD_MachineInfo -> HandleMachineInfo(st, payload)
          [] response = RD_GearReport ->
                IF Len(payload) >= 4
                THEN [st EXCEPT !.grinder.position = UnpackI(Slice(payload, 0, 4))]
                ELSE st
          [] response = RD_CURRENT_WEIGHT2 ->
                IF Len(payload) >= 4
                THEN [st EXCEPT !.scale.weight = Slice(payload, 0, 4)]
                ELSE st
          [] response = RD_BREWER_TEMPERATURE ->
                IF Len(payload) >= 4
                THEN [st EXCEPT !.brewer.temperature = UnpackI(Slice(payload, 0, 4))]
                ELSE st
          [] response = RD_GRINDER_BEGIN -> HandleGrinderBegin(st)
          [] response = RD_Grinder_Stop -> HandleGrinderStop(st)
          [] response = RD_BREWER_BEGIN -> HandleBrewerBegin(st)
          [] response = RD_Brewer_Stop -> HandleBrewerStop(st)
          [] response = RD_BLOOM -> HandleBloom(st)
          [] response = RD_BREWER_PAUSE -> HandleBrewerPause(st)
          [] response = RD_BREWER_COFFEE_START -> HandleCoffeeStart(st)
          [] response = RD_WATER_VOLUME -> HandleWaterVolume(st, payload)
          [] response = RD_IN_BREWER -> HandleInBrewer(st, payload)
          [] OTHER -> st

(***************************************************************************)
(* XBloomClient._parse_response                                            *)
(***************************************************************************)
\* whether _parse_response(data) goes past its length check
Dispatches(data) == Len(data) >= 10

\* the command id it extracts
CommandOf(data) == UnpackH(Slice(data, 3, 5))

\* a variant whose default arm marks the device as failed
StatusAfterUnknownIsError(st, data, clock) ==
    LET cmd == CommandOf(data)
        s1  == IF cmd \in XBloomResponse THEN handle_response(st, cmd, data)
               ELSE [st EXCEPT !.state = ERROR]
    IN  [s1 EXCEPT !.last_update = clock]

\* The status after the dispatch and the time stamp (clock: datetime.now()).
\* A command id that XBloomResponse(cmd) rejects raises ValueError, which is
\* caught: no handler runs.
StatusAfter(st, data, clock) ==
    LET cmd == CommandOf(data)
        s1  == IF cmd \in XBloomResponse THEN handle_response(st, cmd, data) ELSE st
    IN  [s1 EXCEPT !.last_update = clock]

\* a variant without the try around the call: the first exception ends the loop
RECURSIVE NotifyCallbacksUnguarded(_, _, _)
NotifyCallbacksUnguarded(cbs, i, st) ==
    IF i > Len(cbs) THEN <<>>
    ELSE <<[observer |-> i, raised |-> cbs[i].raises, status |-> st]>>
             \o (IF cbs[i].raises THEN <<>>
                 ELSE NotifyCallbacksUnguarded(cbs, i + 1, st))

\* The for loop over self._callbacks from position i on: each callback is
\* called with the status; an exception it raises is caught and logged, and
\* the loop goes on.  The result is the record of the calls made.
RECURSIVE NotifyCallbacks(_, _, _)
NotifyCallbacks(cbs, i, st) ==
    IF i > Len(cbs) THEN <<>>
    ELSE <<[observer |-> i, raised |-> cbs[i].raises, status |-> st]>>
             \o NotifyCallbacks(cbs, i + 1, st)


(***************************************************************************)
(* Frames the device sends (tests/mock_device.py builds them this way)     *)
(***************************************************************************)
StudioTag == 2             \* 0x02, the second header _on_notification accepts

device_frame(tag, cmd, payload) ==
    LET pkt == <<tag, 1, 2>> \o PackH(cmd) \o PackI(12 + Len(payload))
                   \o <<1>> \o payload
    IN  pkt \o PackH(crc16(pkt))

\* a frame whose CRC field is wrong: its last byte changed
Corrupt(frame) == [frame EXCEPT ![Len(frame)] = (@ + 1) % 256]

\* a frame cut short: its last byte missing
Truncate(frame) == SubSeq(frame, 1, Len(frame) - 1)

\* a header whose length field declares n bytes in all, padded to 12 bytes
BadLength(n) == <<HeaderTag, 1, 2>> \o PackH(RD_BREWER_BEGIN) \o PackI(n)
                    \o <<1, 0, 0>>

Seg(kind, bytes) == [kind |-> kind, bytes |-> bytes]

\* a frame is well formed when its tag is recognized, its length field is its
\* length and its CRC field is the CRC16 of the bytes before it
WellFormed(f) ==
    /\ Len(f) >= 12
    /\ f[1] \in {HeaderTag, StudioTag}
    /\ UnpackI(Slice(f, 5, 9)) = Len(f)
    /\ UnpackH(LastTwo(f)) = crc16(SliceToCrc(f, 0))

RECURSIVE Flatten(_)
Flatten(segs) ==
    IF segs = <<>> THEN <<>> ELSE Head(segs).bytes \o Flatten(Tail(segs))

(***************************************************************************)
(* XBloomClient._on_notification, one iteration of its while loop per step *)
(* The handler is synchronous: nothing else of the client runs while       *)
(* scanning is TRUE.                                                       *)
(***************************************************************************)
\* a variant that puts the bytes left unscanned before the new ones
ReceivedJoined(kept, data) == kept \o data

\* raw_data = bytes(data): the buffer that is scanned, given the bytes the
\* last scan left unscanned and the bytes of this notification
Received(kept, data) == data

\* The transport delivers one notification: _on_notification is called.
Deliver(segs) ==
    /\ ~scanning
    /\ is_connected
    /\ subscribed
    /\ scanning' = TRUE
    /\ raw_data' = Received(SubSeq(raw_data, offset + 1, Len(raw_data)), Flatten(segs))
    /\ offset' = 0
    /\ layout' = segs
    /\ applied' = <<>>
    /\ called' = <<>>
    /\ before' = status
    /\ ndeliv' = ndeliv + 1
    /\ UNCHANGED <<clientVars, codecVars, brewVars>>
    /\ UNCHANGED extVars

\* a variant that resumes the scan one byte on
AdvanceOneByte(total_len) == 1

\* how far offset moves after _parse_response(packet) returned
Advance(total_len) == total_len

\* the header tags the scan stops at
IsHeader(b) == b \in {HeaderTag, StudioTag}

\* _parse_response(packet): its effect on the status and on the histories
ParseResponse(packet) ==
    IF Dispatches(packet)
    THEN LET st == StatusAfter(status, packet, ndeliv)
         IN  /\ status' = st
             /\ applied' = Append(applied, [packet |-> packet, pre |-> status,
                                            status |-> st,
                                            callbacks |-> callbacks])
             /\ called' = called \o NotifyCallbacks(callbacks, 1, st)
    ELSE UNCHANGED <<status, applied, called>>

\* the scan is at a header whose declared length the buffer holds
AtWholeFrame ==
    /\ offset < Len(raw_data)
    /\ IsHeader(raw_data[offset + 1])
    /\ Len(raw_data) - offset >= 10
    /\ ~U32Exceeds(Slice(raw_data, offset + 5, offset + 9), Len(raw_data) - offset)

\* _parse_response(packet) sets brewer.is_running to True
ReportsRunning(packet) ==
    /\ Dispatches(packet)
    /\ StatusAfter([status EXCEPT !.brewer.is_running = FALSE], packet, 0).brewer.is_running

\* the positions of a call that waits for the brew to complete
WaitPositions == {"loop", "settle", "sleep"}

\* the positions of a manual execution in its grinder loop
GrindPositions == {"grind_poll", "grind_sleep"}

ScanStep ==
    /\ scanning
    /\ IF offset >= Len(raw_data)
       THEN /\ scanning' = FALSE
            /\ UNCHANGED <<offset, status, applied, called>>
       ELSE IF ~IsHeader(raw_data[offset + 1])
       THEN /\ offset' = offset + 1
            /\ UNCHANGED <<scanning, status, applied, called>>
       ELSE IF Len(raw_data) - offset < 10
       THEN /\ scanning' = FALSE
            /\ UNCHANGED <<offset, status, applied, called>>
       ELSE LET len_field == Slice(raw_data, offset + 5, offset + 9)
                total_len == UnpackI(len_field)
            IN  IF U32Exceeds(len_field, Len(raw_data) - offset)
                THEN /\ scanning' = FALSE
                     /\ UNCHANGED <<offset, status, applied, called>>
                ELSE /\ ParseResponse(Slice(raw_data, offset, offset + total_len))
                     /\ offset' = offset + Advance(total_len)
                     /\ UNCHANGED scanning
    /\ reported' =
           (\/ reported
            \/ /\ pc \in WaitPositions
               /\ AtWholeFrame
               /\ ReportsRunning(Slice(raw_data, offset,
                      offset + UnpackI(Slice(raw_data, offset + 5, offset + 9)))))
    /\ shown' = (shown \/ (pc \in GrindPositions /\ status'.grinder.is_running))
    /\ UNCHANGED <<raw_data, layout, before, ndeliv>>
    /\ UNCHANGED <<is_connected, subscribed, callbacks, writes>>
    /\ UNCHANGED <<codecVars, brewVars>>
    /\ UNCHANGED extRest

\* on_status_update(callback)
on_status_update(raises) ==
    /\ ~scanning
    /\ callbacks' = Append(callbacks, [raises |-> raises])
    /\ UNCHANGED <<is_connected, subscribed, status, writes>>
    /\ UNCHANGED <<codecVars, notifVars, brewVars>>
    /\ UNCHANGED extVars


(***************************************************************************)
(* Bounds of the model                                                     *)
(***************************************************************************)
MaxSegs      == 3      \* segments in one scanned notification buffer
MaxScans     == 2      \* notifications per run of the scan and observer specs
MaxFrames    == 3      \* notifications per run of the status spec
MaxObservers == 2      \* registered observers

(***************************************************************************)
(* The notification buffers the model delivers                             *)
(***************************************************************************)
FGrinderBegin  == device_frame(HeaderTag, RD_GRINDER_BEGIN, <<>>)
FGrinderStop   == device_frame(StudioTag, RD_Grinder_Stop, <<>>)
FBrewerBegin   == device_frame(HeaderTag, RD_BREWER_BEGIN, <<>>)
FBrewerStop    == device_frame(HeaderTag, RD_Brewer_Stop, <<>>)
FBloom         == device_frame(HeaderTag, RD_BLOOM, <<>>)
FBrewerPause   == device_frame(StudioTag, RD_BREWER_PAUSE, <<>>)
FCoffeeStart   == device_frame(HeaderTag, RD_BREWER_COFFEE_START, <<>>)
\* gear position 0x00025802: a payload that holds both header tags
FGear          == device_frame(HeaderTag, RD_GearReport, <<2, 88, 2, 0>>)
\* weight 10.5
FWeight        == device_frame(HeaderTag, RD_CURRENT_WEIGHT2, <<0, 0, 40, 65>>)
\* temperature 93.5 degrees
FTemperature   == device_frame(HeaderTag, RD_BREWER_TEMPERATURE, PackI(935))
\* water volume 250.7, and +infinity
FWater         == device_frame(HeaderTag, RD_WATER_VOLUME, <<51, 179, 122, 67>>)
FWaterInf      == device_frame(HeaderTag, RD_WATER_VOLUME, <<0, 0, 128, 127>>)
\* volume 50, temperature 93, pattern 2; and the same cut to two fields
FInBrewer      == device_frame(StudioTag, RD_IN_BREWER,
                               PackI(50) \o PackI(93) \o PackI(2))
FInBrewerShort == device_frame(StudioTag, RD_IN_BREWER, PackI(50) \o PackI(93))
FEnjoy         == device_frame(HeaderTag, RD_ENJOY, <<>>)
\* codes that are no member of XBloomResponse
FUnknown       == device_frame(HeaderTag, 1234, <<>>)
FUnknownData   == device_frame(StudioTag, APP_RECIPE_EXECUTE, PackI(7))

\* a machine-info block: serial "SN1", model "M" after a NUL, version "v1"
\* around a byte 0xFF, water-level flag 1, system status 7, water volume 25
MachineInfoBlock ==
    <<83, 78, 49, 0, 0, 0, 0, 0, 0, 0, 0, 0, 0>>
        \o <<0, 77, 0, 0, 0, 0>>
        \o <<118, 255, 49, 0, 0, 0, 0, 0, 0, 0>>
        \o <<0, 0, 0, 0, 1, 7, 0, 25, 0, 0, 0>>

FMachineInfo(n) == device_frame(HeaderTag, RD_MachineInfo, SubSeq(MachineInfoBlock, 1, n))

Junk     == Seg("junk", <<255>>)
JunkPair == Seg("junk", <<0, 1>>)

\* the segments the scan spec assembles its buffers from
ScanSegs ==
    { Junk,
      Seg("frame", FGrinderBegin),
      Seg("frame", FGrinderStop),
      Seg("frame", FGear),
      Seg("badcrc", Corrupt(FBrewerBegin)),
      Seg("partial", Truncate(FWeight)) }

SeqsUpTo(S, n) == UNION { [1..k -> S] : k \in 1..n }

ScanBuffers ==
    SeqsUpTo(ScanSegs, MaxSegs)
    \cup { <<Seg("short", SubSeq(FGrinderBegin, 1, 9))>>,
           <<Seg("badlength", BadLength(5)), Seg("frame", FGrinderBegin)>>,
           <<Seg("badlength", BadLength(0)), Seg("frame", FGrinderBegin)>>,
           <<JunkPair, Seg("frame", FGear), JunkPair, Seg("frame", FGrinderStop)>>,
           <<Seg("frame", FGrinderBegin), Seg("partial", SubSeq(FWeight, 1, 11))>> }

\* the last notification ended inside a frame
EndsInside == layout # <<>> /\ layout[Len(layout)].kind = "partial"

\* the bytes of the frame that the last notification did not hold, alone and
\* with a frame after them
TailBuffers ==
    LET got == layout[Len(layout)].bytes
        tail == Seg("tail", SubSeq(FWeight, Len(got) + 1, Len(FWeight)))
    IN  {<<tail>>, <<tail, Seg("frame", FGrinderBegin)>>}

\* the frames the status spec delivers, one to a notification
StatusFrames ==
    { Seg("frame", f) :
        f \in { FGrinderBegin, FGrinderStop, FBrewerBegin, FBrewerStop, FBloom,
                FBrewerPause, FCoffeeStart, FGear, FWeight, FTemperature,
                FWater, FWaterInf, FInBrewer, FInBrewerShort, FEnjoy,
                FUnknown, FUnknownData, FMachineInfo(33), FMachineInfo(34),
                FMachineInfo(35), FMachineInfo(40) } }
    \cup { Seg("badcrc", Corrupt(FBrewerBegin)), Seg("badcrc", Corrupt(FWeight)) }

StatusBuffers ==
    { <<f>> : f \in StatusFrames }
    \cup { <<Seg("frame", FUnknown), Seg("frame", FGrinderBegin)>>,
           <<Seg("frame", FUnknownData), Seg("frame", FBrewerBegin)>> }

\* the buffers the observer spec delivers
ObserverBuffers ==
    { <<Seg("frame", FWeight)>>,
      <<Seg("frame", FUnknown)>>,
      <<Seg("frame", FGrinderBegin), Seg("frame", FGrinderStop)>>,
      <<Junk, Seg("frame", FBrewerBegin), Seg("short", SubSeq(FWeight, 1, 9))>> }

\* every segment labelled "frame" is a well-formed frame, every one labelled
\* "badcrc" differs from one only in its CRC field, every "junk" byte is no
\* header tag
LabelsRight ==
    \A b \in ScanBuffers \cup StatusBuffers \cup ObserverBuffers :
        \A i \in DOMAIN b :
            /\ b[i].kind = "frame" => WellFormed(b[i].bytes)
            /\ b[i].kind = "badcrc" =>
                   /\ ~WellFormed(b[i].bytes)
                   /\ WellFormed(SliceToCrc(b[i].bytes, 0)
                                 \o PackH(crc16(SliceToCrc(b[i].bytes, 0))))
            /\ b[i].kind = "junk" =>
                   \A j \in DOMAIN b[i].bytes : ~IsHeader(b[i].bytes[j])

(***************************************************************************)
(* Initial states                                                          *)
(***************************************************************************)
CodecOff ==
    /\ c_pc = "off"
    /\ c_fields = None
    /\ c_packet = <<>>
    /\ c_parsed = None

NotifIdle ==
    /\ scanning = FALSE
    /\ raw_data = <<>>
    /\ offset = 0
    /\ layout = <<>>
    /\ applied = <<>>
    /\ called = <<>>
    /\ before = DeviceStatus
    /\ ndeliv = 0

BrewIdle ==
    /\ pc = "idle"
    /\ method = "none"
    /\ recipe = None
    /\ wait_for_completion = FALSE
    /\ timeout = 0
    /\ now = 0
    /\ start_time = 0
    /\ brewing_started = FALSE
    /\ result = "none"
    /\ polls = <<>>

\* a reader holds nothing yet
NoRef == [ref |-> "none"]

\* no _send_command call in progress; the flag as __init__ sets it; no reader
CallerIdle ==
    /\ args = None
    /\ attempt = 0
    /\ cleanup_on_disconnect = TRUE
    /\ held = NoRef
    /\ seen = None
    /\ read_subscribed = FALSE
    /\ connects = 0
    /\ trace = <<>>
    /\ waited = <<>>
    /\ reported = FALSE
    /\ shown = FALSE

\* no execute() call yet
ManualIdle ==
    /\ initial_weight = <<0, 0, 0, 0>>
    /\ total_poured = 0
    /\ pour_index = 0

\* no recipe is being built, encoded or parsed
PureOff ==
    /\ p_pc = "off"
    /\ p_in = None
    /\ made = None
    /\ p_out = <<>>
    /\ p_in2 = None
    /\ made2 = None
    /\ p_out2 = <<>>

ExtIdle == CallerIdle /\ ManualIdle /\ PureOff

\* XBloomClient.__init__
ClientNew ==
    /\ is_connected = FALSE
    /\ subscribed = FALSE
    /\ status = DeviceStatus
    /\ callbacks = <<>>
    /\ writes = <<>>

\* The session as connect() leaves it when the transport connected and the
\* device has sent nothing yet; writes records the writes made from then on.
ClientConnected ==
    /\ is_connected = TRUE
    /\ subscribed = TRUE
    /\ status = [DeviceStatus EXCEPT !.connected = TRUE]
    /\ callbacks = <<>>
    /\ writes = <<>>

(***************************************************************************)
(* SpecCodec: the protocol round trip                                      *)
(***************************************************************************)
InitCodec ==
    /\ c_pc = "start"
    /\ c_fields \in CodecInputs
    /\ c_packet = <<>>
    /\ c_parsed = None
    /\ ClientNew /\ NotifIdle /\ BrewIdle /\ ExtIdle

CodecBuildStep == CodecBuild /\ UNCHANGED <<clientVars, notifVars, brewVars, extVars>>

CodecParseStep == CodecParse /\ UNCHANGED <<clientVars, notifVars, brewVars, extVars>>

NextCodec == CodecBuildStep \/ CodecParseStep

SpecCodec == InitCodec /\ [][NextCodec]_vars

(***************************************************************************)
(* SpecScan: notification buffers of several segments                      *)
(***************************************************************************)
InitSession == CodecOff /\ ClientConnected /\ NotifIdle /\ BrewIdle /\ ExtIdle

DeliverScan ==
    /\ ndeliv < MaxScans
    /\ \E segs \in ScanBuffers \cup (IF EndsInside THEN TailBuffers ELSE {}) : Deliver(segs)

NextScan == DeliverScan \/ ScanStep

SpecScan == InitSession /\ [][NextScan]_vars

(***************************************************************************)
(* SpecStatus: the state machine, frame after frame                        *)
(***************************************************************************)
DeliverFrame == ndeliv < MaxFrames /\ \E segs \in StatusBuffers : Deliver(segs)

NextStatus == DeliverFrame \/ ScanStep

SpecStatus == InitSession /\ [][NextStatus]_vars

(***************************************************************************)
(* SpecObserve: observers registered with on_status_update                 *)
(***************************************************************************)
RegisterObserver ==
    /\ Len(callbacks) < MaxObservers
    /\ \E raises \in BOOLEAN : on_status_update(raises)

DeliverObserved == ndeliv < MaxScans /\ \E segs \in ObserverBuffers : Deliver(segs)

NextObserve == RegisterObserver \/ DeliverObserved \/ ScanStep

SpecObserve == InitSession /\ [][NextObserve]_vars


(***************************************************************************)
(* models/types.py: recipes.  A bean weight is held in tenths of a gram    *)
(* and a flow rate in hundredths; every other field is an int in the code. *)
(***************************************************************************)
\* PourPattern.SPIRAL and VibrationPattern.NONE, the defaults of PourStep
SPIRAL == 2
VIBRATION_NONE == 0

\* PourStep(volume, temperature, flow_rate, pausing), as __post_init__ accepts it
PourStep(volume, temperature, flow_rate, pausing) ==
    [volume |-> volume, temperature |-> temperature, flow_rate |-> flow_rate,
     pausing |-> pausing, pattern |-> SPIRAL, vibration |-> VIBRATION_NONE]

\* XBloomRecipe(...), as __post_init__ accepts it
XBloomRecipe(grind_size, total_water, rpm, cup_type, bean_weight, pours) ==
    [grind_size |-> grind_size, total_water |-> total_water, rpm |-> rpm,
     cup_type |-> cup_type, bean_weight |-> bean_weight, pours |-> pours]

(***************************************************************************)
(* models/recipes.py: build_recipe_payload                                 *)
(***************************************************************************)
\* struct.pack('BBBB', vol, pour.temperature, int(pour.pattern), int(pour.vibration))
pack_sub_step(pour, vol) == <<vol, pour.temperature, pour.pattern, pour.vibration>>

RECURSIVE Repeat(_, _)
Repeat(s, n) == IF n = 0 THEN <<>> ELSE s \o Repeat(s, n - 1)

\* the chunking of one pour's volume
sub_steps(pour) ==
    IF pour.volume > 127
    THEN Repeat(pack_sub_step(pour, 127), pour.volume \div 127)
             \o (IF pour.volume % 127 > 0
                 THEN pack_sub_step(pour, pour.volume % 127) ELSE <<>>)
    ELSE pack_sub_step(pour, pour.volume)

\* a metadata record that carries the rpm for every pour
meta_rpm_always(rcp, pour, i) ==
    << (256 - (pour.pausing % 256)) % 256, 0, rcp.rpm % 256,
       (pour.flow_rate \div 10) % 256 >>

\* struct.pack('BBBB', pause_byte, 0, rpm_byte, flow_byte) of pour number i
\* (0-based); int(pour.flow_rate * 10) of a flow rate held in hundredths
meta(rcp, pour, i) ==
    << (256 - (pour.pausing % 256)) % 256,
       0,
       IF i = 0 THEN rcp.rpm % 256 ELSE 0,
       (pour.flow_rate \div 10) % 256 >>

RECURSIVE payload_body(_, _)
payload_body(rcp, i) ==
    IF i >= Len(rcp.pours) THEN <<>>
    ELSE sub_steps(rcp.pours[i + 1]) \o meta(rcp, rcp.pours[i + 1], i)
             \o payload_body(rcp, i + 1)

\* a footer that carries the dose as well
footer_with_dose(rcp) ==
    <<rcp.grind_size % 256, (rcp.total_water * 10) % 256, (rcp.bean_weight \div 10) % 256>>

footer(rcp) == <<rcp.grind_size % 256, (rcp.total_water * 10) % 256>>

\* struct.pack('B', body_len) raises struct.error when body_len > 255
PayloadRaises(rcp) == Len(payload_body(rcp, 0)) > 255

build_recipe_payload(rcp) ==
    <<Len(payload_body(rcp, 0))>> \o payload_body(rcp, 0) \o footer(rcp)

(***************************************************************************)
(* XBloomClient: the commands of the brew workflows                        *)
(***************************************************************************)
DefaultDeviceId == 1       \* self._device_id
DefaultTypeCode == 1       \* type_code: int = 0x01

RECURSIVE Log2Floor(_)
Log2Floor(n) == IF n < 2 THEN 0 ELSE 1 + Log2Floor(n \div 2)

\* struct.unpack('<I', struct.pack('<f', f))[0] for a float f that is a whole
\* number 0 <= f < 2^24: sign 0, biased exponent, 23 bits of fraction
FloatBits(f) ==
    IF f = 0 THEN 0
    ELSE LET e == Log2Floor(f)
         IN  (e + 127) * Pow2(23) + (f - Pow2(e)) * Pow2(23 - e)

\* the data list set_bypass(volume, temp, dose) sends
set_bypass(volume, temp, dose) == <<FloatBits(volume), FloatBits(temp * 10), dose>>

\* the data list set_cup(f1, f2) sends
set_cup(f1, f2) == <<FloatBits(f1), FloatBits(f2)>>

\* cup_bounds.get(cup_type_val, (90.0, 40.0)) of brew: <<cup_max, cup_min>>
BrewCupBounds(cup_type) ==
    CASE cup_type = 1 -> <<80, 40>>
      [] cup_type = 2 -> <<90, 40>>
      [] cup_type = 3 -> <<90, 40>>
      [] OTHER -> <<90, 40>>

\* cup_bounds.get(cup_type_val, (90.0, 40.0)) of brew_without_grinding
NoGrindCupBounds(cup_type) ==
    CASE cup_type = 1 -> <<80, 0>>
      [] cup_type = 2 -> <<90, 0>>
      [] cup_type = 3 -> <<90, 0>>
      [] OTHER -> <<90, 40>>

CupBounds == IF method = "brew" THEN BrewCupBounds(recipe.cup_type)
             ELSE NoGrindCupBounds(recipe.cup_type)

\* int(recipe.bean_weight), of a bean weight held in tenths of a gram
IntOfTenths(t) == t \div 10

\* the dose brew and brew_without_grinding hand to set_bypass
Dose(m, r) == IF m = "brew" THEN IntOfTenths(r.bean_weight) ELSE 0

\* the command that carries the recipe
RecipeCommand(m) == IF m = "brew" THEN APP_RECIPE_SEND_AUTO ELSE APP_RECIPE_SEND_MANUAL

\* self._connection.write_command(WRITE_UUID, packet, response=False)
Written(packet) == Append(writes, [data |-> packet, response |-> FALSE])

\* the call ends: it returned value or raised it
Ends(value) ==
    /\ pc' = "done"
    /\ result' = value

\* a variant that writes without looking at the link
SendUnchecked(packet, ok, next) ==
    /\ writes' = Written(packet)
    /\ pc' = next
    /\ UNCHANGED result

\* _send_command / _send_command_raw with the packet built, then control
\* goes to next; ok is whether the transport's write succeeded
Send(packet, ok, next) ==
    IF ~is_connected
    THEN Ends("ConnectionError") /\ UNCHANGED writes
    ELSE IF ~ok
    THEN Ends("TransportError") /\ UNCHANGED writes
    ELSE /\ writes' = Written(packet)
         /\ pc' = next
         /\ UNCHANGED result

(***************************************************************************)
(* XBloomClient.brew and XBloomClient.brew_without_grinding, one action    *)
(* per stretch of code between two awaits that give way to other callbacks *)
(***************************************************************************)
\* the call, up to the first sleep: the connection check and step 1
Call(m, r, wait, tmo, ok) ==
    /\ pc = "idle"
    /\ ~scanning
    /\ method' = m
    /\ recipe' = r
    /\ wait_for_completion' = wait
    /\ timeout' = tmo
    /\ Send(build_command(APP_SET_BYPASS, set_bypass(0, 0, Dose(m, r)),
                          DefaultTypeCode, DefaultDeviceId), ok, "step2")
    /\ UNCHANGED <<is_connected, subscribed, status, callbacks>>
    /\ UNCHANGED <<now, start_time, brewing_started, polls>>
    /\ UNCHANGED <<codecVars, notifVars>>
    /\ UNCHANGED extVars

\* step 2: set_cup(cup_max, cup_min)
SetCupStep(ok) ==
    /\ pc = "step2"
    /\ ~scanning
    /\ Send(build_command(APP_SET_CUP, set_cup(CupBounds[1], CupBounds[2]),
                          DefaultTypeCode, DefaultDeviceId), ok, "step3")
    /\ UNCHANGED <<is_connected, subscribed, status, callbacks>>
    /\ UNCHANGED <<method, recipe, wait_for_completion, timeout, now,
                   start_time, brewing_started, polls>>
    /\ UNCHANGED <<codecVars, notifVars>>
    /\ UNCHANGED extVars

\* step 3: build_recipe_payload(recipe), then the recipe command
SendRecipeStep(ok) ==
    /\ pc = "step3"
    /\ ~scanning
    /\ IF PayloadRaises(recipe)
       THEN Ends("struct.error") /\ UNCHANGED writes
       ELSE Send(build_command_raw(RecipeCommand(method), build_recipe_payload(recipe),
                                   DefaultTypeCode, DefaultDeviceId), ok, "step4")
    /\ UNCHANGED <<is_connected, subscribed, status, callbacks>>
    /\ UNCHANGED <<method, recipe, wait_for_completion, timeout, now,
                   start_time, brewing_started, polls>>
    /\ UNCHANGED <<codecVars, notifVars>>
    /\ UNCHANGED extVars

\* step 4: execute_coffee_recipe(), then return True or enter the wait loop
ExecuteStep(ok) ==
    /\ pc = "step4"
    /\ ~scanning
    /\ IF ~is_connected
       THEN Ends("ConnectionError") /\ UNCHANGED <<writes, start_time>>
       ELSE IF ~ok
       THEN Ends("TransportError") /\ UNCHANGED <<writes, start_time>>
       ELSE /\ writes' = Written(build_command(APP_RECIPE_EXECUTE, <<>>,
                                               DefaultTypeCode, DefaultDeviceId))
            /\ IF ~wait_for_completion
               THEN Ends("True") /\ UNCHANGED start_time
               ELSE /\ pc' = "loop"
                    /\ start_time' = now
                    /\ UNCHANGED result
    /\ brewing_started' = FALSE
    /\ reported' = FALSE
    /\ UNCHANGED shown
    /\ UNCHANGED <<is_connected, subscribed, status, callbacks>>
    /\ UNCHANGED <<method, recipe, wait_for_completion, timeout, now, polls>>
    /\ UNCHANGED <<codecVars, notifVars>>
    /\ UNCHANGED extRest

\* brewing_started and not status.brewer.is_running
Completed(started, running) == started /\ ~running

\* a variant that takes the settle check for passed whatever it reads
SettledAlways(running) == TRUE

\* not self.status.brewer.is_running, after the settle time
Settled(running) == ~running

\* what one look at the link, the clock and the brewer found
Observed(kind, running) == [kind |-> kind, running |-> running]

\* one pass of the while loop, from its condition to its first sleep
\* what the wait loop hands to the caller: return True when the brew is
\* complete, return False when the link is down, return False after the loop
ReturnOnComplete   == "True"
ReturnOnDisconnect == "False"
ReturnOnTimeout    == "False"

\* a variant whose loop runs three seconds past the timeout
TimedOutLate(elapsed, tmo) == ~(elapsed < tmo + 6)

\* the negation of the while condition: time() - start_time < timeout
TimedOut(elapsed, tmo) == ~(elapsed < tmo)

PollStep ==
    /\ pc = "loop"
    /\ ~scanning
    /\ IF TimedOut(now - start_time, timeout)
       THEN /\ Ends(ReturnOnTimeout)
            /\ polls' = Append(polls, Observed("timeout", status.brewer.is_running))
            /\ UNCHANGED brewing_started
       ELSE IF ~is_connected
       THEN /\ Ends(ReturnOnDisconnect)
            /\ polls' = Append(polls, Observed("disconnected", status.brewer.is_running))
            /\ UNCHANGED brewing_started
       ELSE LET running == status.brewer.is_running
                started == brewing_started \/ running
            IN  /\ brewing_started' = started
                /\ polls' = Append(polls, Observed("poll", running))
                /\ pc' = IF Completed(started, running) THEN "settle" ELSE "sleep"
                /\ UNCHANGED result
    /\ UNCHANGED <<clientVars, codecVars, notifVars>>
    /\ UNCHANGED <<method, recipe, wait_for_completion, timeout, now, start_time>>
    /\ UNCHANGED extVars

\* asyncio.sleep(2) is over (four ticks): the second look at the brewer
SettleStep ==
    /\ pc = "settle"
    /\ ~scanning
    /\ now' = now + 4
    /\ LET running == status.brewer.is_running
       IN  /\ polls' = Append(polls, Observed("recheck", running))
           /\ IF Settled(running)
              THEN Ends(ReturnOnComplete)
              ELSE pc' = "sleep" /\ UNCHANGED result
    /\ UNCHANGED <<clientVars, codecVars, notifVars>>
    /\ UNCHANGED <<method, recipe, wait_for_completion, timeout, start_time,
                   brewing_started>>
    /\ UNCHANGED extVars

\* asyncio.sleep(0.5) is over (one tick): back to the loop condition
SleepStep ==
    /\ pc = "sleep"
    /\ ~scanning
    /\ now' = now + 1
    /\ pc' = "loop"
    /\ UNCHANGED <<clientVars, codecVars, notifVars>>
    /\ UNCHANGED <<method, recipe, wait_for_completion, timeout, start_time,
                   brewing_started, result, polls>>
    /\ UNCHANGED extVars

\* the transport loses the link: BleakClient.is_connected turns False
DropLink ==
    /\ ~scanning
    /\ is_connected
    /\ is_connected' = FALSE
    /\ UNCHANGED <<subscribed, status, callbacks, writes>>
    /\ UNCHANGED <<codecVars, notifVars, brewVars>>
    /\ UNCHANGED extVars

(***************************************************************************)
(* SpecBrew: one call of brew or brew_without_grinding on a connected      *)
(* session, while the device reports and the link may drop                 *)
(***************************************************************************)
MaxEvents == 4         \* notifications during one brew call

\* 15.5 g in an unlisted cup (the default cup_type), one pour
RecipeDefaultCup ==
    XBloomRecipe(60, 0, 60, 0, 155, <<PourStep(50, 92, 300, 0)>>)
\* 20 g in an X-Pod, two pours, the first of two chunks
RecipeXPod ==
    XBloomRecipe(70, 16, 80, 1, 200,
                 <<PourStep(130, 92, 350, 10), PourStep(127, 0, 305, 300)>>)
\* no beans, no pours, X-Dripper
RecipeEmpty == XBloomRecipe(0, 0, 0, 2, 0, <<>>)
\* tea: CupType.TEA is 4
RecipeTea ==
    XBloomRecipe(150, 30, 120, 4, 1000, <<PourStep(0, 100, 0, 0)>>)
\* sixty-four chunks in one pour: a body of 260 bytes
RecipeLong ==
    XBloomRecipe(60, 0, 60, 3, 150, <<PourStep(8128, 92, 300, 0)>>)

BrewRecipes == {RecipeDefaultCup, RecipeXPod, RecipeEmpty, RecipeTea, RecipeLong}

BrewMethods == {"brew", "brew_without_grinding"}

\* timeouts in ticks: none at all, two and a half seconds, six seconds
BrewTimeouts == {0, 5, 12}

BrewBuffers ==
    { <<Seg("frame", FBrewerBegin)>>, <<Seg("frame", FBrewerStop)>> }

CallBrew ==
    \E m \in BrewMethods, r \in BrewRecipes, wait \in BOOLEAN,
       tmo \in BrewTimeouts, ok \in BOOLEAN :
        Call(m, r, wait, tmo, ok)

SetCup == \E ok \in BOOLEAN : SetCupStep(ok)

SendRecipe == \E ok \in BOOLEAN : SendRecipeStep(ok)

Execute == \E ok \in BOOLEAN : ExecuteStep(ok)

DeliverBrew ==
    /\ ndeliv < MaxEvents
    /\ pc # "done"
    /\ \E segs \in BrewBuffers : Deliver(segs)

NextBrew ==
    \/ CallBrew
    \/ SetCup
    \/ SendRecipe
    \/ Execute
    \/ PollStep
    \/ SettleStep
    \/ SleepStep
    \/ DropLink
    \/ DeliverBrew
    \/ ScanStep

SpecBrew == InitSession /\ [][NextBrew]_vars

(***************************************************************************)
(* SpecWait: one waiting call, of either method, with one recipe.  The     *)
(* event loop runs every callback that is ready and every sleep ends: a    *)
(* step of the call or of the notification handler that can be taken is    *)
(* taken.                                                                  *)
(***************************************************************************)
\* timeouts in ticks: none at all, and two and a half seconds
WaitTimeouts == {0, 5}

CallWaiting ==
    \E m \in BrewMethods, tmo \in WaitTimeouts, ok \in BOOLEAN :
        Call(m, RecipeXPod, TRUE, tmo, ok)

NextWait ==
    \/ CallWaiting
    \/ SetCup
    \/ SendRecipe
    \/ Execute
    \/ PollStep
    \/ SettleStep
    \/ SleepStep
    \/ DropLink
    \/ DeliverBrew
    \/ ScanStep

SpecWait ==
    /\ InitSession /\ [][NextWait]_vars
    /\ WF_vars(SetCup) /\ WF_vars(SendRecipe) /\ WF_vars(Execute)
    /\ WF_vars(PollStep) /\ WF_vars(SettleStep) /\ WF_vars(SleepStep)
    /\ WF_vars(ScanStep)

(***************************************************************************)
(* Properties                                                              *)
(***************************************************************************)
\* the packets dispatched during the current notification, in order
AppliedPackets == [i \in DOMAIN applied |-> applied[i].packet]

\* the well-formed frames of a layout, in order
RECURSIVE FramesOf(_)
FramesOf(segs) ==
    IF segs = <<>> THEN <<>>
    ELSE (IF Head(segs).kind = "frame" THEN <<Head(segs).bytes>> ELSE <<>>)
             \o FramesOf(Tail(segs))

\* the current notification has been handled to its end
ScanDone == ~scanning /\ ndeliv > 0

\* the buffer holds well-formed frames and bytes that are no header tag only
CleanLayout == \A i \in DOMAIN layout : layout[i].kind \in {"frame", "junk"}

LayoutKinds == [i \in DOMAIN layout |-> layout[i].kind]

\* the device id and type code that the header string of a parse result holds
HeaderDeviceId(p) == FromHex(p.header)[2]
HeaderTypeCode(p) == FromHex(p.header)[3]

\* C1: parse_response on the packet that build_command_raw or build_command
\* returned gives back the command id, the device id, the type code and the
\* payload that were encoded, and reports valid_crc = true.
C1_RoundTrip ==
    c_pc = "parsed" =>
        /\ c_parsed # None
        /\ c_parsed.command = c_fields.command
        /\ HeaderDeviceId(c_parsed) = c_fields.device_id
        /\ HeaderTypeCode(c_parsed) = c_fields.type_code
        /\ c_parsed.data = PayloadOf(c_fields)
        /\ c_parsed.valid_crc

\* C2: when a notification buffer made of well-formed frames and of bytes
\* that are no header tag has been handled, the packets dispatched are exactly
\* its frames, one dispatch per frame, in buffer order.
C2_OneApplicationPerFrame ==
    /\ LabelsRight
    /\ (ScanDone /\ CleanLayout) => AppliedPackets = FramesOf(layout)

\* two back-to-back frames after a junk byte have been dispatched
C2_Witness ==
    /\ ScanDone
    /\ LayoutKinds = <<"junk", "frame", "frame">>
    /\ Len(applied) = 2

\* C3: a frame whose CRC field is not the CRC16 of the bytes before it is
\* dropped: it is not dispatched and the status is what it was before the
\* notification.
C3_BadCrcDropped ==
    (ScanDone /\ LayoutKinds = <<"badcrc">>) =>
        /\ applied = <<>>
        /\ status = before

\* C4: every dispatched frame with code 9003 leaves state = Grinding and
\* grinder.running = true, whatever the status was before it, and every
\* dispatched frame with code 40507 leaves state = Idle and grinder.running =
\* false.
C4_GrinderFrames ==
    \A i \in DOMAIN applied :
        LET cmd == CommandOf(applied[i].packet)
            st  == applied[i].status
        IN  /\ cmd = 9003 => (st.state = GRINDING /\ st.grinder.is_running)
            /\ cmd = 40507 => (st.state = IDLE /\ ~st.grinder.is_running)

\* a grinder-stop frame was dispatched on a status that a grinder-begin frame
\* had made Grinding
C4_Witness ==
    /\ ScanDone
    /\ Len(applied) = 1
    /\ CommandOf(applied[1].packet) = 40507
    /\ applied[1].pre.state = GRINDING
    /\ applied[1].pre.grinder.is_running
    /\ status.state = IDLE
    /\ ~status.grinder.is_running

\* C5: a dispatched frame with code 9005, 40510 or 40502 leaves state =
\* Brewing, one with code 40511 leaves Idle, one with code 9010 leaves Paused;
\* and a frame other than the two grinder frames that finds the state Brewing
\* and leaves it different is a brewer-stop or a brewer-pause frame.
C5_BrewerTransitions ==
    \A i \in DOMAIN applied :
        LET cmd == CommandOf(applied[i].packet)
            st  == applied[i].status
            pre == applied[i].pre
        IN  /\ cmd \in {9005, 40510, 40502} => st.state = BREWING
            /\ cmd = 40511 => st.state = IDLE
            /\ cmd = 9010 => st.state = PAUSED
            /\ (pre.state = BREWING /\ st.state # BREWING /\ cmd \notin {9003, 40507})
                   => cmd \in {40511, 9010}

\* a brewer-pause frame was dispatched while the state was Brewing
C5_Witness ==
    /\ ScanDone
    /\ Len(applied) = 1
    /\ CommandOf(applied[1].packet) = 9010
    /\ applied[1].pre.state = BREWING
    /\ status.state = PAUSED

\* the status with its update time stamp taken out
Untimed(st) == [st EXCEPT !.last_update = 0]

\* C6: a dispatched frame whose command code is no member of XBloomResponse
\* leaves every field of the status but the time stamp as it was, and the
\* frames after it in the same buffer are dispatched all the same.
C6_UnknownCodeIgnored ==
    /\ \A i \in DOMAIN applied :
           CommandOf(applied[i].packet) \notin XBloomResponse
               => Untimed(applied[i].status) = Untimed(applied[i].pre)
    /\ (ScanDone /\ CleanLayout) => Len(applied) = Len(FramesOf(layout))

\* an unrecognized frame left a status that earlier frames had changed as it
\* was, and the frame after it was dispatched
C6_Witness ==
    /\ ScanDone
    /\ Len(applied) = 2
    /\ CommandOf(applied[1].packet) = 1234
    /\ applied[1].pre.state = BREWING
    /\ applied[1].pre.brewer.is_running
    /\ applied[1].status.state = BREWING
    /\ applied[2].status.state = GRINDING

\* the calls due for the dispatched frames from frame k on: for each frame,
\* every observer registered when it was dispatched, once, in registration
\* order, with the status the frame left
RECURSIVE ExpectedCalls(_)
ExpectedCalls(k) ==
    IF k > Len(applied) THEN <<>>
    ELSE [i \in 1..Len(applied[k].callbacks) |->
              [observer |-> i, raised |-> applied[k].callbacks[i].raises,
               status |-> applied[k].status]]
         \o ExpectedCalls(k + 1)

\* C7: the observers invoked during a notification are, for each dispatched
\* frame in order, every registered observer exactly once in registration
\* order with the status that frame left, whether or not an observer raised;
\* and a raising observer does not keep the later frames of the buffer from
\* being dispatched.
C7_ObserversAllInvoked ==
    /\ called = ExpectedCalls(1)
    /\ (ScanDone /\ CleanLayout) => Len(applied) = Len(FramesOf(layout))

\* two frames were dispatched with a raising observer registered first and a
\* second observer after it: four calls
C7_Witness ==
    /\ ScanDone
    /\ Len(callbacks) = 2
    /\ callbacks[1].raises
    /\ ~callbacks[2].raises
    /\ Len(applied) = 2
    /\ Len(called) = 4
    /\ called[2].observer = 2

(***************************************************************************)
(* Properties of the brew workflows                                        *)
(***************************************************************************)
\* the command id of a written packet, and its k-th 4-byte int (0-based)
WrittenCommand(w) == UnpackH(Slice(w.data, 3, 5))
WrittenInt(w, k) == UnpackI(Slice(w.data, 10 + 4 * k, 14 + 4 * k))

\* the command ids written so far
RECURSIVE CommandsOf(_)
CommandsOf(ws) ==
    IF ws = <<>> THEN <<>> ELSE <<WrittenCommand(Head(ws))>> \o CommandsOf(Tail(ws))

IsPrefix(s, t) == Len(s) <= Len(t) /\ s = SubSeq(t, 1, Len(s))

\* the call came to its end with the link up and every write accepted
EndedUnfailed ==
    pc = "done" /\ result \notin {"ConnectionError", "TransportError"}

\* the third packet carries the encoded recipe under command
CarriesRecipe(command) ==
    Len(writes) >= 3 =>
        writes[3].data = build_command_raw(command, build_recipe_payload(recipe),
                                           DefaultTypeCode, DefaultDeviceId)

\* C8: on a connected session with no write failure, brew writes exactly four
\* packets, in this order: set-bypass (8102) with volume 0, temperature 0 and
\* a dose equal to the recipe's bean weight, set-cup-bounds (8104), the
\* encoded recipe under the with-grinding command (8001), execute (8002);
\* when it does not wait it returns True right after the execute write and
\* has polled nothing.
C8_BrewWritesFour ==
    method = "brew" =>
        /\ IsPrefix(CommandsOf(writes),
                    <<APP_SET_BYPASS, APP_SET_CUP, APP_RECIPE_SEND_AUTO,
                      APP_RECIPE_EXECUTE>>)
        /\ Len(writes) >= 1 =>
               /\ WrittenInt(writes[1], 0) = 0
               /\ WrittenInt(writes[1], 1) = 0
               /\ WrittenInt(writes[1], 2) * 10 = recipe.bean_weight
        /\ CarriesRecipe(APP_RECIPE_SEND_AUTO)
        /\ EndedUnfailed => Len(writes) = 4
        /\ EndedUnfailed /\ ~wait_for_completion => result = "True" /\ polls = <<>>

\* C9: for every recipe and every cup type value, listed or not,
\* brew_without_grinding writes in this order: set-bypass with dose 0,
\* set-cup-bounds with lower bound 0, the encoded recipe under the
\* no-grinding command (8004), execute (8002).
C9_NoGrindWrites ==
    method = "brew_without_grinding" =>
        /\ IsPrefix(CommandsOf(writes),
                    <<APP_SET_BYPASS, APP_SET_CUP, APP_RECIPE_SEND_MANUAL,
                      APP_RECIPE_EXECUTE>>)
        /\ Len(writes) >= 1 => WrittenInt(writes[1], 2) = 0
        /\ Len(writes) >= 2 => WrittenInt(writes[2], 1) = FloatBits(0)
        /\ CarriesRecipe(APP_RECIPE_SEND_MANUAL)
        /\ EndedUnfailed => Len(writes) = 4

IsPoll(k, running) == polls[k] = Observed("poll", running)
IsRecheck(k, running) == polls[k] = Observed("recheck", running)

\* C10: a waiting brew or brew_without_grinding returns True only if a poll
\* saw the brewer running, a later poll saw it not running, and the look
\* after the settle delay, which is the last one, saw it not running too; a
\* look after the settle delay that sees the brewer running again does not
\* end the call: the loop goes on to its sleep and its condition, and the
\* next thing it does is another poll unless the timeout is over or the link
\* is down by then.
C10_SuccessIsSettled ==
    /\ wait_for_completion /\ result = "True" =>
           \E i, j \in 1..Len(polls) :
               /\ i < j
               /\ IsPoll(i, TRUE)
               /\ IsPoll(j, FALSE)
               /\ j + 1 = Len(polls)
               /\ IsRecheck(j + 1, FALSE)
    /\ \A k \in 1..Len(polls) :
           IsRecheck(k, TRUE) =>
               IF k = Len(polls)
               THEN result = "none" /\ pc \in {"sleep", "loop"}
               ELSE polls[k + 1].kind \in {"poll", "timeout", "disconnected"}

\* a waiting call that returned True after a settle check had found the
\* brewer running again and a later poll had been made
C10_Witness ==
    /\ wait_for_completion
    /\ result = "True"
    /\ \E k \in 1..Len(polls) : IsRecheck(k, TRUE) /\ polls[k + 1].kind = "poll"

\* no notification delivered so far, this one included, held a brewer-stop
\* frame (layout is the notification being handled or the last one handled)
NoBrewerStop == \A i \in 1..Len(layout) : layout[i].bytes # FBrewerStop

\* the wait loop has ended
WaitEnded == pc = "done" /\ polls # <<>>

\* the wait loop ended on its timeout, within the time C11 allows: not before
\* the timeout, and at most one poll interval (1 tick) and one settle delay
\* (4 ticks) after it
EndedAtTimeout ==
    WaitEnded =>
        /\ result = "False"
        /\ polls[Len(polls)].kind = "timeout"
        /\ now - start_time >= timeout
        /\ now - start_time <= timeout + 1 + 4

\* C11: if the session stays connected and the device never reports
\* brewer-stop, a waiting brew that has reached its wait loop always ends,
\* with the failure result, and it ends on the timeout: not before it and
\* no later than one poll interval plus one settle delay after it.
C11_TimesOutWithoutStop ==
    [](is_connected /\ NoBrewerStop) =>
        /\ [](EndedAtTimeout)
        /\ ((pc = "loop") ~> (pc = "done" /\ result = "False"))

\* a waiting call that saw the brewer start, never saw it stop, and returned
\* False on its timeout with the link still up
C11_Witness ==
    /\ WaitEnded
    /\ is_connected
    /\ timeout > 0
    /\ brewing_started
    /\ status.brewer.is_running
    /\ result = "False"
    /\ polls[Len(polls)].kind = "timeout"
    /\ \A k \in 1..Len(polls) : polls[k].kind # "recheck"

\* why the wait loop ended: "timeout", "disconnected", or "recheck" when the
\* brew was found complete
WaitEndCause == polls[Len(polls)].kind

\* C12: a disconnect during the wait and an elapsed timeout reach the caller
\* as two distinct failure outcomes: what the call hands back when it ends
\* for one of the two causes is neither what it hands back for the other
\* cause nor what it hands back on success.
C12_DistinctFailures ==
    /\ WaitEnded /\ WaitEndCause = "timeout" =>
           result \notin {ReturnOnDisconnect, ReturnOnComplete}
    /\ WaitEnded /\ WaitEndCause = "disconnected" =>
           result \notin {ReturnOnTimeout, ReturnOnComplete}

(***************************************************************************)
(* XBloomClient._send_command and XBloomClient._send_command_raw           *)
(***************************************************************************)
\* the argument device_id: None, or an int
NoDeviceId == [given |-> FALSE]
DeviceIdOf(v) == [given |-> TRUE, value |-> v]

\* device_id if device_id is not None else self._device_id
target_device_id(a) ==
    IF a.device_id.given THEN a.device_id.value ELSE DefaultDeviceId

\* the packet the call builds from its arguments
PacketOf(a) ==
    IF a.raw
    THEN build_command_raw(a.command, a.data, a.type_code, target_device_id(a))
    ELSE build_command(a.command, a.data, a.type_code, target_device_id(a))

\* a caller calls _send_command (raw FALSE) or _send_command_raw (raw TRUE)
SendCall(a) ==
    /\ pc = "idle"
    /\ ~scanning
    /\ pc' = "send"
    /\ method' = IF a.raw THEN "_send_command_raw" ELSE "_send_command"
    /\ args' = a
    /\ result' = "none"
    /\ UNCHANGED <<clientVars, codecVars, notifVars>>
    /\ UNCHANGED <<recipe, wait_for_completion, timeout, now, start_time,
                   brewing_started, polls>>
    /\ UNCHANGED <<attempt, cleanup_on_disconnect, held, seen,
                   read_subscribed, connects, trace, waited>>
    /\ UNCHANGED <<manualVars, pureVars, reported, shown>>

\* a variant that writes although the transport is not connected
MayWriteAlways(connected) == TRUE

\* if not self.is_connected: raise ConnectionError
MayWrite(connected) == connected

\* the body of the call: the connection test, the packet, the write, the
\* return; ok is whether the transport accepted the write
send_command(ok) ==
    /\ pc = "send"
    /\ ~scanning
    /\ pc' = "idle"
    /\ IF ~MayWrite(is_connected)
       THEN result' = "ConnectionError" /\ UNCHANGED writes
       ELSE IF ~ok
       THEN result' = "TransportError" /\ UNCHANGED writes
       ELSE result' = "True" /\ writes' = Written(PacketOf(args))
    /\ UNCHANGED <<is_connected, subscribed, status, callbacks>>
    /\ UNCHANGED <<codecVars, notifVars, extVars>>
    /\ UNCHANGED <<method, recipe, wait_for_completion, timeout, now,
                   start_time, brewing_started, polls>>

(***************************************************************************)
(* SpecSend: calls of _send_command and _send_command_raw on a session     *)
(* that is connected at first, while the device reports and the link may   *)
(* drop                                                                    *)
(***************************************************************************)
MaxSends == 2          \* packets written during one run of the send spec

\* execute with no data and the session's device id, set-cup with two ints
\* and an explicit device id, a raw recipe payload under type code 2
SendInputs ==
    { [raw |-> FALSE, command |-> APP_RECIPE_EXECUTE, data |-> <<>>,
       device_id |-> NoDeviceId, type_code |-> DefaultTypeCode],
      [raw |-> FALSE, command |-> APP_SET_CUP, data |-> set_cup(90, 40),
       device_id |-> DeviceIdOf(0), type_code |-> DefaultTypeCode],
      [raw |-> FALSE, command |-> APP_SET_CUP, data |-> set_cup(80, 0),
       device_id |-> DeviceIdOf(5), type_code |-> StudioTag],
      [raw |-> TRUE, command |-> APP_RECIPE_SEND_MANUAL,
       data |-> build_recipe_payload(RecipeXPod),
       device_id |-> NoDeviceId, type_code |-> StudioTag],
      [raw |-> TRUE, command |-> APP_RECIPE_SEND_AUTO, data |-> <<>>,
       device_id |-> DeviceIdOf(5), type_code |-> DefaultTypeCode] }

SendBuffers == { <<Seg("frame", FGrinderBegin)>>, <<Seg("frame", FUnknown)>> }

CallSend == Len(writes) < MaxSends /\ \E a \in SendInputs : SendCall(a)

ReturnSend == \E ok \in BOOLEAN : send_command(ok)

DeliverSend == ndeliv < MaxScans /\ \E segs \in SendBuffers : Deliver(segs)

NextSend == CallSend \/ ReturnSend \/ DropLink \/ DeliverSend \/ ScanStep

SpecSend == InitSession /\ [][NextSend]_vars

\* a step in which a _send_command or _send_command_raw call returns or raises
SendReturns == pc = "send" /\ pc' = "idle"

\* C13: on a connected session a send / send_raw call makes exactly one
\* transport write, of the packet encoded from its arguments with
\* response = False, and returns True (when the transport refuses the write
\* the call fails with the transport's error and nothing is recorded as
\* written); it does so whatever notifications have or have not arrived; on
\* a session whose transport is not connected it raises ConnectionError and
\* writes nothing.
C13_OneWritePerSend ==
    [][SendReturns =>
          IF is_connected
          THEN \/ /\ writes' = Append(writes, [data |-> PacketOf(args),
                                               response |-> FALSE])
                  /\ result' = "True"
               \/ /\ writes' = writes
                  /\ result' = "TransportError"
          ELSE writes' = writes /\ result' = "ConnectionError"]_vars

\* a raw call wrote its packet before any notification arrived, and a later
\* call, made after the link dropped, raised ConnectionError and wrote nothing
C13_Witness ==
    /\ pc = "idle"
    /\ method = "_send_command"
    /\ result = "ConnectionError"
    /\ ~is_connected
    /\ ndeliv = 0
    /\ Len(writes) = 1
    /\ writes[1].data = build_command_raw(APP_RECIPE_SEND_MANUAL,
                                          build_recipe_payload(RecipeXPod),
                                          StudioTag, DefaultDeviceId)

(***************************************************************************)
(* XBloomClient.connect, _reset_state and disconnect, one action per       *)
(* stretch of code between two awaits that give way to other callbacks.    *)
(* The transport is BleakConnection: a connect attempt makes a new         *)
(* BleakClient, so what was registered on the old one is gone.             *)
(***************************************************************************)
APP_RECIPE_STOP  == 40519
APP_BREWER_QUIT  == 8013
APP_GRINDER_QUIT == 8012
APP_BREWER_PAUSE == 8019

\* one call on the transport: arg is the command id of a write, 0 otherwise;
\* ok is whether the call went through
Called(op, arg, ok) == [op |-> op, arg |-> arg, ok |-> ok]

\* a call that is neither a brew nor a send leaves these alone
LifeUnchanged ==
    /\ UNCHANGED <<codecVars, notifVars>>
    /\ UNCHANGED <<recipe, wait_for_completion, timeout, now, start_time,
                   brewing_started, polls>>
    /\ UNCHANGED <<args, attempt, held, seen, waited>>
    /\ UNCHANGED <<manualVars, pureVars, reported, shown>>

\* a connect() without the test of the transport: it always goes on to
\* connect the transport
connectUntested ==
    /\ pc = "idle"
    /\ ~scanning
    /\ method' = "connect"
    /\ connects' = connects + 1
    /\ trace' = <<>>
    /\ pc' = "connecting" /\ result' = "none"
    /\ UNCHANGED <<clientVars, cleanup_on_disconnect, read_subscribed>>
    /\ LifeUnchanged

\* connect(): the test of the transport, before anything is awaited
connect ==
    /\ pc = "idle"
    /\ ~scanning
    /\ method' = "connect"
    /\ connects' = connects + 1
    /\ trace' = <<>>
    /\ IF is_connected
       THEN pc' = "idle" /\ result' = "True"
       ELSE pc' = "connecting" /\ result' = "none"
    /\ UNCHANGED <<clientVars, cleanup_on_disconnect, read_subscribed>>
    /\ LifeUnchanged

\* self._connection.connect(...) is over: it raised ("raises"), or returned
\* with the link up ("connected") or not up ("refused")
TransportConnect(outcome) ==
    /\ pc = "connecting"
    /\ ~scanning
    /\ trace' = Append(trace, Called("connect", 0, outcome = "connected"))
    /\ is_connected' = (outcome = "connected")
    /\ subscribed' = FALSE
    /\ read_subscribed' = FALSE
    /\ IF outcome = "connected"
       THEN pc' = "subscribe" /\ UNCHANGED result
       ELSE pc' = "idle" /\ result' = "False"
    /\ UNCHANGED <<status, callbacks, writes, method, connects,
                   cleanup_on_disconnect>>
    /\ LifeUnchanged

\* the two start_notify calls and self._status.connected = True
Subscribe(okNotify, okRead) ==
    /\ pc = "subscribe"
    /\ ~scanning
    /\ IF ~is_connected \/ ~okNotify
       THEN /\ trace' = Append(trace, Called("start_notify NOTIFY_UUID", 0, FALSE))
            /\ pc' = "idle"
            /\ result' = IF ~is_connected THEN "ConnectionError" ELSE "TransportError"
            /\ UNCHANGED <<subscribed, read_subscribed, status>>
       ELSE /\ trace' = trace \o <<Called("start_notify NOTIFY_UUID", 0, TRUE),
                                   Called("start_notify READ_CHAR", 0, okRead)>>
            /\ subscribed' = TRUE
            /\ read_subscribed' = okRead
            /\ status' = [status EXCEPT !.connected = TRUE]
            /\ pc' = "reset1"
            /\ UNCHANGED result
    /\ UNCHANGED <<is_connected, callbacks, writes, method, connects,
                   cleanup_on_disconnect>>
    /\ LifeUnchanged

\* the commands _reset_state writes, in order
ResetSequence == <<APP_RECIPE_STOP, APP_BREWER_QUIT, APP_GRINDER_QUIT>>

\* where control goes when _reset_state returns
AfterReset == IF method = "connect" THEN "final" ELSE "unsubscribe"

ResetPacket(command) ==
    build_command(command, <<>>, DefaultTypeCode, DefaultDeviceId)

\* _reset_state, up to its first sleep: APP_RECIPE_STOP
ResetStop(ok) ==
    /\ pc = "reset1"
    /\ ~scanning
    /\ IF ~is_connected
       THEN pc' = AfterReset /\ UNCHANGED <<writes, trace>>
       ELSE /\ trace' = Append(trace, Called("write", APP_RECIPE_STOP, ok))
            /\ IF ok
               THEN pc' = "reset2" /\ writes' = Written(ResetPacket(APP_RECIPE_STOP))
               ELSE pc' = AfterReset /\ UNCHANGED writes
    /\ UNCHANGED <<is_connected, subscribed, status, callbacks, method, result,
                   connects, cleanup_on_disconnect, read_subscribed>>
    /\ LifeUnchanged

\* _reset_state, between its two sleeps: APP_BREWER_QUIT, APP_GRINDER_QUIT
ResetQuit(okBrewer, okGrinder) ==
    /\ pc = "reset2"
    /\ ~scanning
    /\ IF ~is_connected
       THEN pc' = AfterReset /\ UNCHANGED <<writes, trace>>
       ELSE IF ~okBrewer
       THEN /\ trace' = Append(trace, Called("write", APP_BREWER_QUIT, FALSE))
            /\ pc' = AfterReset
            /\ UNCHANGED writes
       ELSE /\ trace' = trace \o <<Called("write", APP_BREWER_QUIT, TRUE),
                                   Called("write", APP_GRINDER_QUIT, okGrinder)>>
            /\ writes' = IF okGrinder
                         THEN writes \o <<[data |-> ResetPacket(APP_BREWER_QUIT),
                                           response |-> FALSE],
                                          [data |-> ResetPacket(APP_GRINDER_QUIT),
                                           response |-> FALSE]>>
                         ELSE Written(ResetPacket(APP_BREWER_QUIT))
            /\ pc' = IF okGrinder THEN "reset3" ELSE AfterReset
    /\ UNCHANGED <<is_connected, subscribed, status, callbacks, method, result,
                   connects, cleanup_on_disconnect, read_subscribed>>
    /\ LifeUnchanged

\* the last sleep of _reset_state is over
ResetSleep ==
    /\ pc = "reset3"
    /\ ~scanning
    /\ pc' = AfterReset
    /\ UNCHANGED <<clientVars, method, result, connects, trace,
                   cleanup_on_disconnect, read_subscribed>>
    /\ LifeUnchanged

\* the sleep after _reset_state is over: connect returns True
ConnectReturn ==
    /\ pc = "final"
    /\ ~scanning
    /\ pc' = "idle"
    /\ result' = "True"
    /\ UNCHANGED <<clientVars, method, connects, trace,
                   cleanup_on_disconnect, read_subscribed>>
    /\ LifeUnchanged

\* a disconnect() that resets the machine whatever the flag says
CleanupAlways(flag) == TRUE

\* whether disconnect() calls _reset_state: if self._cleanup_on_disconnect
CleanupFirst(flag) == flag

\* disconnect(): the test of the transport and of the cleanup flag
disconnect ==
    /\ pc = "idle"
    /\ ~scanning
    /\ method' = "disconnect"
    /\ trace' = <<>>
    /\ IF is_connected
       THEN /\ pc' = IF CleanupFirst(cleanup_on_disconnect)
                     THEN "reset1" ELSE "unsubscribe"
            /\ result' = "none"
            /\ UNCHANGED status
       ELSE /\ pc' = "idle"
            /\ result' = "None"
            /\ status' = [status EXCEPT !.connected = FALSE]
    /\ UNCHANGED <<is_connected, subscribed, callbacks, writes, connects,
                   cleanup_on_disconnect, read_subscribed>>
    /\ LifeUnchanged

\* stop_notify(NOTIFY_UUID), whose failure is passed over
Unsubscribe(ok) ==
    /\ pc = "unsubscribe"
    /\ ~scanning
    /\ trace' = Append(trace, Called("stop_notify NOTIFY_UUID", 0, is_connected /\ ok))
    /\ subscribed' = IF is_connected /\ ok THEN FALSE ELSE subscribed
    /\ pc' = "closing"
    /\ UNCHANGED <<is_connected, status, callbacks, writes, method, result,
                   connects, cleanup_on_disconnect, read_subscribed>>
    /\ LifeUnchanged

\* self._connection.disconnect(), then self._status.connected = False
TransportDisconnect ==
    /\ pc = "closing"
    /\ ~scanning
    /\ trace' = Append(trace, Called("disconnect", 0, TRUE))
    /\ is_connected' = FALSE
    /\ subscribed' = FALSE
    /\ read_subscribed' = FALSE
    /\ status' = [status EXCEPT !.connected = FALSE]
    /\ pc' = "idle"
    /\ result' = "None"
    /\ UNCHANGED <<callbacks, writes, method, connects, cleanup_on_disconnect>>
    /\ LifeUnchanged

\* a caller assigns client._cleanup_on_disconnect
SetCleanup(flag) ==
    /\ pc = "idle"
    /\ ~scanning
    /\ cleanup_on_disconnect # flag
    /\ cleanup_on_disconnect' = flag
    /\ UNCHANGED <<clientVars, brewVars, codecVars, notifVars>>
    /\ UNCHANGED <<args, attempt, held, seen, read_subscribed, connects, trace>>
    /\ UNCHANGED <<waited, manualVars, pureVars, reported, shown>>

\* what the status property returns: self._status itself
StatusRef == [ref |-> "self._status"]

\* the value a reader finds through what the status property returned
Deref(ref) == status

\* a reader evaluates client.status and keeps what it got
ReadStatus ==
    /\ ~scanning
    /\ held = NoRef
    /\ held' = StatusRef
    /\ seen' = status
    /\ UNCHANGED <<clientVars, brewVars, codecVars, notifVars>>
    /\ UNCHANGED <<args, attempt, cleanup_on_disconnect, read_subscribed,
                   connects, trace>>
    /\ UNCHANGED <<waited, manualVars, pureVars, reported, shown>>

(***************************************************************************)
(* SpecLife: a client, new or as an earlier connect() left it, that is     *)
(* connected and disconnected while the device reports and the link may    *)
(* drop                                                                    *)
(***************************************************************************)
MaxConnects   == 1     \* connect() calls during one run
MaxLifeEvents == 1     \* notifications during one run

InitLife ==
    /\ CodecOff /\ NotifIdle /\ BrewIdle /\ ExtIdle
    /\ ClientNew \/ ClientConnected

LifeBuffers == { <<Seg("frame", FBrewerBegin)>>, <<Seg("frame", FGear)>> }

CallConnect == connects < MaxConnects /\ connect

ConnectTransport ==
    \E outcome \in {"connected", "raises", "refused"} : TransportConnect(outcome)

SubscribeBoth == \E okNotify \in BOOLEAN, okRead \in BOOLEAN : Subscribe(okNotify, okRead)

SendStop == \E ok \in BOOLEAN : ResetStop(ok)

SendQuit == \E okBrewer \in BOOLEAN, okGrinder \in BOOLEAN : ResetQuit(okBrewer, okGrinder)

StopNotify == \E ok \in BOOLEAN : Unsubscribe(ok)

ToggleCleanup == \E flag \in BOOLEAN : SetCleanup(flag)

DeliverLife == ndeliv < MaxLifeEvents /\ \E segs \in LifeBuffers : Deliver(segs)

NextLife ==
    \/ CallConnect
    \/ ConnectTransport
    \/ SubscribeBoth
    \/ SendStop
    \/ SendQuit
    \/ ResetSleep
    \/ ConnectReturn
    \/ disconnect
    \/ StopNotify
    \/ TransportDisconnect
    \/ ToggleCleanup
    \/ DropLink
    \/ DeliverLife
    \/ ScanStep

SpecLife == InitLife /\ [][NextLife]_vars

(***************************************************************************)
(* Properties of connect and disconnect                                    *)
(***************************************************************************)
IsWrite(call) == call.op = "write"

\* the command ids the call in progress, or the last one, handed to
\* write_command, in order
RECURSIVE ArgsOf(_)
ArgsOf(calls) ==
    IF calls = <<>> THEN <<>> ELSE <<Head(calls).arg>> \o ArgsOf(Tail(calls))

CommandsTraced == ArgsOf(SelectSeq(trace, IsWrite))

\* every transport call of the call in progress, or the last one, went through
AllCallsOk == \A i \in 1..Len(trace) : trace[i].ok

\* the call named m has returned value
Returned(m, value) == pc = "idle" /\ method = m /\ result = value

\* the notification channel was subscribed before the i-th transport call
SubscribedBefore(i) ==
    \E j \in 1..(i - 1) : trace[j] = Called("start_notify NOTIFY_UUID", 0, TRUE)

\* C14: on a successful connect the session subscribes to the notification
\* channel before it writes any command, and then writes the reset sequence
\* in this order: stop any running recipe, pause, quit brewer mode, quit
\* grinder mode.
C14_ConnectResets ==
    method = "connect" =>
        /\ \A i \in 1..Len(trace) : IsWrite(trace[i]) => SubscribedBefore(i)
        /\ IsPrefix(CommandsTraced,
                    <<APP_RECIPE_STOP, APP_BREWER_PAUSE, APP_BREWER_QUIT,
                      APP_GRINDER_QUIT>>)
        /\ Returned("connect", "True") /\ trace # <<>> /\ AllCallsOk =>
               Len(CommandsTraced) = 4

\* the transport connect of the connect() call was attempted and failed
ConnectFailed == trace # <<>> /\ trace[1] = Called("connect", 0, FALSE)

\* the transport was connected when the connect() call looked at it: already
\* at the call, or after the attempt
ConnectedAfterAttempt ==
    trace = <<>> \/ trace[1] = Called("connect", 0, TRUE)

\* a start_notify on the notification channel failed
SubscribeFailed ==
    trace # <<>> /\ trace[Len(trace)] = Called("start_notify NOTIFY_UUID", 0, FALSE)

\* C15: connect() raises neither when the transport connect fails nor when
\* commands of the reset sequence fail; it returns True exactly when the
\* transport is connected after the attempt, even if every reset command
\* failed; when the transport connect fails it returns False with nothing
\* subscribed, no command written and status.connected = false.
C15_ConnectNeverRaises ==
    pc = "idle" /\ method = "connect" =>
        /\ ~SubscribeFailed => result \in {"True", "False"}
        /\ ~SubscribeFailed => (result = "True" <=> ConnectedAfterAttempt)
        /\ ConnectFailed =>
               /\ result = "False"
               /\ ~subscribed
               /\ ~read_subscribed
               /\ CommandsTraced = <<>>
               /\ ~status.connected

\* the step of a connect() call in which the new link has been subscribed
\* and self._status.connected is set
FreshConnect == method = "connect" /\ pc = "subscribe" /\ pc' = "reset1"

\* C16: after every fresh successful connect the status is the default
\* snapshot (state Unknown, grinder and brewer not running, weight 0, empty
\* machine info) but for connected = true, whatever frames were applied
\* during an earlier connection of the same client.
C16_StatusResetOnConnect ==
    [][FreshConnect =>
          Untimed(status') = [DeviceStatus EXCEPT !.connected = TRUE]]_vars

\* the step in which a disconnect() call on a connected session ends
DisconnectReturns == method = "disconnect" /\ pc = "closing" /\ pc' = "idle"

\* every write of the call went through
WritesOk(calls) == \A i \in 1..Len(calls) : IsWrite(calls[i]) => calls[i].ok

DeliverRead == ndeliv < MaxScans /\ \E segs \in ObserverBuffers : Deliver(segs)

NextRead == ReadStatus \/ DeliverRead \/ ScanStep

SpecRead == InitSession /\ [][NextRead]_vars

\* C18: the status handed to a reader is an immutable snapshot: what a reader
\* obtained before a notification reads the same after that notification and
\* after every later one.
C18_StatusIsSnapshot == held = StatusRef => Deref(held) = seen

(***************************************************************************)
(* connection/robust.py: robust_connect and RobustBleakConnection.connect. *)
(* Both run the same loop over attempt = 1 .. max_retries; the function    *)
(* returns the connection or None, the method returns or raises            *)
(* ConnectionError.  The recovery steps (kill_competing_processes,         *)
(* bluetooth_disconnect) and the sleeps around them are one step, and are  *)
(* taken to return normally.                                               *)
(***************************************************************************)
DefaultMaxRetries == 3

RobustVariants == {"robust_connect", "RobustBleakConnection.connect"}

\* a loop that hands the connection back whether it is connected or not
ReturnsHandleAlways(connected) == TRUE

\* if connection.is_connected: return connection
ReturnsHandle(connected) == connected

\* a loop that recovers after its last attempt as well
ShouldCleanupAlways(att, max_retries, cleanup_on_failure) == cleanup_on_failure

\* if attempt < max_retries and cleanup_on_failure
ShouldCleanup(att, max_retries, cleanup_on_failure) ==
    att < max_retries /\ cleanup_on_failure

\* what a call returns when an attempt connected, and when none did
ReturnOnConnected(variant) ==
    IF variant = "robust_connect" THEN "connection" ELSE "None"

ReturnOnExhausted(variant) ==
    IF variant = "robust_connect" THEN "None" ELSE "ConnectionError"

RobustUnchanged ==
    /\ UNCHANGED <<codecVars, notifVars>>
    /\ UNCHANGED <<status, callbacks, writes>>
    /\ UNCHANGED <<recipe, wait_for_completion, timeout, now, start_time,
                   brewing_started, polls>>
    /\ UNCHANGED <<cleanup_on_disconnect, held, seen, read_subscribed>>
    /\ UNCHANGED <<manualVars, pureVars, reported, shown>>

\* the call: robust_connect makes a new BleakConnection, the method works on
\* the connection it is called on
robust_connect(variant, max_retries, cleanup_on_failure) ==
    /\ pc = "idle"
    /\ ~scanning
    /\ method' = variant
    /\ args' = [max_retries |-> max_retries,
                cleanup_on_failure |-> cleanup_on_failure]
    /\ attempt' = 1
    /\ trace' = <<>>
    /\ waited' = <<>>
    /\ result' = "none"
    /\ pc' = "attempt"
    /\ connects' = connects + 1
    /\ IF variant = "robust_connect"
       THEN is_connected' = FALSE /\ subscribed' = FALSE
       ELSE UNCHANGED <<is_connected, subscribed>>
    /\ RobustUnchanged

\* one pass of the loop, up to the return or the test for recovery; the
\* connect of the transport raised ("raises"), or returned with the link up
\* ("connected") or not up ("refused")
RobustAttempt(outcome) ==
    /\ pc = "attempt"
    /\ ~scanning
    /\ attempt <= args.max_retries
    /\ trace' = Append(trace, Called("connect", attempt, outcome = "connected"))
    /\ waited' = <<>>
    /\ is_connected' = (outcome = "connected")
    /\ subscribed' = FALSE
    /\ IF outcome # "raises" /\ ReturnsHandle(outcome = "connected")
       THEN /\ pc' = "idle"
            /\ result' = ReturnOnConnected(method)
            /\ UNCHANGED attempt
       ELSE IF ShouldCleanup(attempt, args.max_retries, args.cleanup_on_failure)
       THEN /\ pc' = "cleanup"
            /\ UNCHANGED <<attempt, result>>
       ELSE /\ pc' = "attempt"
            /\ attempt' = attempt + 1
            /\ UNCHANGED result
    /\ UNCHANGED <<method, args, connects>>
    /\ RobustUnchanged

\* the seconds slept during the recovery steps: asyncio.sleep(1.0) when
\* processes were killed, in robust_connect asyncio.sleep(2.0) when the
\* forced disconnect succeeded, and the asyncio.sleep(2.0) before the retry
BackoffSeconds == 2

CleanupSleeps(variant, killed, disconnected) ==
    (IF killed > 0 THEN <<1>> ELSE <<>>)
        \o (IF variant = "robust_connect" /\ disconnected THEN <<2>> ELSE <<>>)
        \o <<BackoffSeconds>>

\* the recovery steps: killed is what kill_competing_processes returns,
\* disconnected what bluetooth_disconnect returns
RobustCleanup(killed, disconnected) ==
    /\ pc = "cleanup"
    /\ ~scanning
    /\ trace' = trace \o <<Called("kill_competing_processes", killed, TRUE),
                           Called("bluetooth_disconnect", 0, disconnected)>>
    /\ waited' = CleanupSleeps(method, killed, disconnected)
    /\ attempt' = attempt + 1
    /\ pc' = "attempt"
    /\ UNCHANGED <<is_connected, subscribed, method, args, result, connects>>
    /\ RobustUnchanged

\* the loop has run out
RobustGivesUp ==
    /\ pc = "attempt"
    /\ ~scanning
    /\ attempt > args.max_retries
    /\ pc' = "idle"
    /\ result' = ReturnOnExhausted(method)
    /\ UNCHANGED <<is_connected, subscribed, method, args, attempt, trace,
                   connects, waited>>
    /\ RobustUnchanged

(***************************************************************************)
(* SpecRobust: calls of the two robust connectors on a transport that is   *)
(* not connected at first                                                  *)
(***************************************************************************)
MaxRetries == 3        \* largest max_retries a call is given

RetryChoices == (0..MaxRetries) \cup {DefaultMaxRetries}

InitRobust == CodecOff /\ ClientNew /\ NotifIdle /\ BrewIdle /\ ExtIdle

CallRobust ==
    /\ connects < MaxConnects
    /\ \E variant \in RobustVariants, n \in RetryChoices, c \in BOOLEAN :
           robust_connect(variant, n, c)

AttemptRobust ==
    \E outcome \in {"connected", "raises", "refused"} : RobustAttempt(outcome)

CleanupRobust ==
    \E killed \in 0..1, disconnected \in BOOLEAN : RobustCleanup(killed, disconnected)

NextRobust == CallRobust \/ AttemptRobust \/ CleanupRobust \/ RobustGivesUp

SpecRobust == InitRobust /\ [][NextRobust]_vars

(***************************************************************************)
(* Properties of the robust connectors                                     *)
(***************************************************************************)
IsConnectCall(call) == call.op = "connect"

IsRecovery(call) ==
    call.op \in {"kill_competing_processes", "bluetooth_disconnect"}

SomeAttemptSucceeded(calls) ==
    \E i \in 1..Len(calls) : IsConnectCall(calls[i]) /\ calls[i].ok

\* the step in which a robust connector returns or raises
RobustReturns == method \in RobustVariants /\ pc = "attempt" /\ pc' = "idle"

\* C19: a robust connector never hands back a connection that is not
\* connected at the return; when every attempt failed, and only then, the
\* outcome is the fatal one: robust_connect returns None,
\* RobustBleakConnection.connect raises ConnectionError.
C19_HandleIsConnected ==
    [][RobustReturns =>
          /\ result' \in {ReturnOnConnected(method), ReturnOnExhausted(method)}
          /\ result' = ReturnOnConnected(method) => is_connected'
          /\ result' = ReturnOnExhausted(method) <=> ~SomeAttemptSucceeded(trace')]_vars

\* RobustBleakConnection.connect raised after three failed attempts
C19_Witness ==
    /\ Returned("RobustBleakConnection.connect", "ConnectionError")
    /\ args.max_retries = DefaultMaxRetries
    /\ Len(SelectSeq(trace, IsConnectCall)) = 3
    /\ ~SomeAttemptSucceeded(trace)
    /\ ~is_connected

\* the connect calls among the first n transport calls
AttemptsBefore(n) == Len(SelectSeq(SubSeq(trace, 1, n), IsConnectCall))

\* C20: a robust connector calls the transport's connect at most max_retries
\* times (3 by default), makes no call after the first attempt that
\* connected, and runs the recovery steps (killing processes, the forced
\* disconnect) only after a failed attempt that is not the last one allowed.
C20_BoundedAttempts ==
    method \in RobustVariants =>
        /\ AttemptsBefore(Len(trace)) <= args.max_retries
        /\ \A i \in 1..Len(trace) :
               IsConnectCall(trace[i]) /\ trace[i].ok => i = Len(trace)
        /\ \A i \in 1..Len(trace) :
               IsRecovery(trace[i]) =>
                   /\ args.cleanup_on_failure
                   /\ AttemptsBefore(i) >= 1
                   /\ AttemptsBefore(i) < args.max_retries
                   /\ \E j \in 1..(i - 1) :
                          /\ IsConnectCall(trace[j]) /\ ~trace[j].ok
                          /\ \A k \in (j + 1)..(i - 1) : IsRecovery(trace[k])

\* robust_connect with its defaults connected at the third attempt, after
\* two recoveries
C20_Witness ==
    /\ Returned("robust_connect", "connection")
    /\ args = [max_retries |-> DefaultMaxRetries, cleanup_on_failure |-> TRUE]
    /\ trace = <<Called("connect", 1, FALSE),
                 Called("kill_competing_processes", 1, TRUE),
                 Called("bluetooth_disconnect", 0, TRUE),
                 Called("connect", 2, FALSE),
                 Called("kill_competing_processes", 0, TRUE),
                 Called("bluetooth_disconnect", 0, FALSE),
                 Called("connect", 3, TRUE)>>
    /\ is_connected

\* the step in which a robust connector calls the transport's connect again
RobustRetries ==
    /\ method \in RobustVariants
    /\ pc = "attempt"
    /\ attempt > 1
    /\ Len(trace') = Len(trace) + 1

\* C29: between any two consecutive connect attempts of a robust connector
\* the fixed backoff wait takes place, whatever max_retries and
\* cleanup_on_failure are.
C29_BackoffBetweenAttempts ==
    [][RobustRetries =>
          waited # <<>> /\ waited[Len(waited)] = BackoffSeconds]_vars

(***************************************************************************)
(* models/manual.py: XBloomManualRecipe.execute, with the controllers of   *)
(* components/scale.py, grinder.py and brewer.py it calls; one action per  *)
(* stretch of code between two awaits.  The clock counts ticks of half a   *)
(* second, the sleep of the grinder poll; the other sleeps are not timed.  *)
(***************************************************************************)
SG_LEFT_SINGLE    == 2503
SG_RIGHT_SINGLE   == 2504
APP_GRINDER_IN    == 8006
APP_GRINDER_START == 3500
APP_GRINDER_STOP  == 3505
APP_BREWER_START  == 4506
APP_BREWER_STOP   == 4507

\* timeout = 120, in seconds
GrindTimeout == 120

\* XBloomManualRecipe(pours, grind_size, grind_speed_rpm)
XBloomManualRecipe(pours, grind_size, grind_speed_rpm) ==
    [pours |-> pours, grind_size |-> grind_size,
     grind_speed_rpm |-> grind_speed_rpm]

has_grinding(rcp) == rcp.grind_size > 0

has_pours(rcp) == Len(rcp.pours) > 0

\* ten times the float packed little-endian in the 4 bytes b, for a float
\* that is a whole number of tenths
F32Tenths(b) ==
    LET sign == b[4] \div 128
        e    == F32Exponent(b)
        m    == 65536 * (b[3] % 128) + 256 * b[2] + b[1]
        mag  == IF e = 0 THEN 0
                ELSE IF e >= 150 THEN (8388608 + m) * 10 * Pow2(e - 150)
                ELSE ((8388608 + m) * 10) \div Pow2(150 - e)
    IN  IF sign = 1 THEN 0 - mag ELSE mag

\* a variant that works the result out from the recipe's volumes
RECURSIVE TotalVolume(_)
TotalVolume(pours) ==
    IF pours = <<>> THEN 0 ELSE Head(pours).volume + TotalVolume(Tail(pours))

PouredByRecipe(rcp, before_weight, after_weight) == 10 * TotalVolume(rcp.pours)

\* total_poured = final_weight - initial_weight, in tenths of a gram
Poured(rcp, before_weight, after_weight) ==
    F32Tenths(after_weight) - F32Tenths(before_weight)

\* the payload of BrewerController.start: five little-endian 32-bit ints
BrewerStartPayload(pour) ==
    PackInts(<<FloatBits(pour.flow_rate \div 10), FloatBits(pour.volume * 10),
               FloatBits(pour.temperature * 10), 0, pour.pattern>>)

PlainCommand(command, ints) ==
    build_command(command, ints, DefaultTypeCode, DefaultDeviceId)

\* what execute() leaves alone
ManualKeeps ==
    /\ UNCHANGED <<is_connected, subscribed, status, callbacks>>
    /\ UNCHANGED <<codecVars, notifVars>>
    /\ UNCHANGED <<wait_for_completion, timeout, brewing_started>>
    /\ UNCHANGED <<args, attempt, cleanup_on_disconnect, held, seen,
                   read_subscribed, connects, trace, waited, pureVars, reported>>

ManualUnchanged == ManualKeeps /\ UNCHANGED shown

\* where execute() goes after the grind phase, or at once without one
AfterGrind(rcp) == IF has_pours(rcp) THEN "move_right" ELSE "return"

\* the call: initial_weight is read, then the phase to run is chosen
execute(rcp) ==
    /\ pc = "idle"
    /\ ~scanning
    /\ method' = "execute"
    /\ recipe' = rcp
    /\ initial_weight' = status.scale.weight
    /\ polls' = <<>>
    /\ pour_index' = 0
    /\ IF has_grinding(rcp) \/ has_pours(rcp)
       THEN /\ pc' = IF has_grinding(rcp) THEN "move_left" ELSE "move_right"
            /\ result' = "none"
            /\ UNCHANGED total_poured
       ELSE /\ total_poured' = Poured(rcp, status.scale.weight, status.scale.weight)
            /\ Ends("total_poured")
    /\ UNCHANGED <<writes, now, start_time>>
    /\ ManualUnchanged

\* one command of the execution, then control goes to next
ManualSend(packet, ok, next) ==
    /\ ~scanning
    /\ Send(packet, ok, next)
    /\ UNCHANGED <<method, recipe, now, start_time, polls, manualVars>>
    /\ ManualUnchanged

\* one sleep of the execution that is not timed
ManualSleep(next) ==
    /\ ~scanning
    /\ pc' = next
    /\ UNCHANGED <<writes, method, recipe, now, start_time, result, polls,
                   manualVars>>
    /\ ManualUnchanged

\* client.scale.move_left()
MoveLeft(ok) ==
    pc = "move_left" /\ ManualSend(PlainCommand(SG_LEFT_SINGLE, <<>>), ok, "tray_settle")

\* asyncio.sleep(2), then GrinderController.start up to its sleep: enter_mode
EnterMode(ok) ==
    /\ pc = "tray_settle"
    /\ ManualSend(PlainCommand(APP_GRINDER_IN,
                               <<recipe.grind_size, recipe.grind_speed_rpm>>),
                  ok, "burr_settle")

\* asyncio.sleep(2.0), then APP_GRINDER_START and start = loop.time()
GrinderStart(ok) ==
    /\ pc = "burr_settle"
    /\ ~scanning
    /\ Send(PlainCommand(APP_GRINDER_START, <<>>), ok, "grind_poll")
    /\ start_time' = now
    /\ shown' = status.grinder.is_running
    /\ UNCHANGED <<method, recipe, now, polls, manualVars>>
    /\ ManualKeeps

\* a loop that gives up as soon as it is entered
GrindCapNone(elapsed) == TRUE

\* not (loop.time() - start < timeout), elapsed in ticks
GrindCapOver(elapsed) == ~(elapsed < 2 * GrindTimeout)

\* one pass of the while loop, from its condition to its sleep or its end
GrindPoll ==
    /\ pc = "grind_poll"
    /\ ~scanning
    /\ LET running == status.grinder.is_running IN
       IF GrindCapOver(now - start_time)
       THEN /\ polls' = <<Observed("timeout", running)>>
            /\ pc' = "grinder_stop"
       ELSE /\ polls' = <<Observed("poll", running)>>
            /\ pc' = IF ~running THEN "grinder_stop" ELSE "grind_sleep"
    /\ UNCHANGED <<writes, method, recipe, now, start_time, result, manualVars>>
    /\ ManualUnchanged

\* asyncio.sleep(0.5) is over: one tick
GrindSleep ==
    /\ pc = "grind_sleep"
    /\ ~scanning
    /\ now' = now + 1
    /\ pc' = "grind_poll"
    /\ UNCHANGED <<writes, method, recipe, start_time, result, polls, manualVars>>
    /\ ManualUnchanged

\* client.grinder.stop()
GrinderStop(ok) ==
    /\ pc = "grinder_stop"
    /\ ManualSend(PlainCommand(APP_GRINDER_STOP, <<>>), ok, AfterGrind(recipe))

\* client.scale.move_right()
MoveRight(ok) ==
    /\ pc = "move_right"
    /\ ManualSend(PlainCommand(SG_RIGHT_SINGLE, <<>>), ok, "brewer_settle")

\* asyncio.sleep(2) is over: the for loop starts
BrewerSettle ==
    /\ pc = "brewer_settle"
    /\ ~scanning
    /\ pc' = "pour"
    /\ pour_index' = 1
    /\ UNCHANGED <<writes, method, recipe, now, start_time, result, polls,
                   initial_weight, total_poured>>
    /\ ManualUnchanged

\* client.brewer.start(...) of the pour at pour_index, then
\* estimated_time = pour.volume / pour.flow_rate
BrewerStart(ok) ==
    /\ pc = "pour"
    /\ ~scanning
    /\ LET pour == recipe.pours[pour_index] IN
       IF ~is_connected
       THEN Ends("ConnectionError") /\ UNCHANGED writes
       ELSE IF ~ok
       THEN Ends("TransportError") /\ UNCHANGED writes
       ELSE /\ writes' = Written(build_command_raw(APP_BREWER_START,
                                                   BrewerStartPayload(pour),
                                                   DefaultTypeCode, DefaultDeviceId))
            /\ IF pour.flow_rate = 0
               THEN Ends("ZeroDivisionError")
               ELSE pc' = "pouring" /\ UNCHANGED result
    /\ UNCHANGED <<method, recipe, now, start_time, polls, manualVars>>
    /\ ManualUnchanged

\* where the for loop goes after a pour and its pause
NextPour ==
    IF pour_index < Len(recipe.pours)
    THEN pc' = "pour" /\ pour_index' = pour_index + 1
    ELSE pc' = "brewer_stop" /\ UNCHANGED pour_index

\* asyncio.sleep(estimated_time + 2) is over
PourDone ==
    /\ pc = "pouring"
    /\ ~scanning
    /\ IF recipe.pours[pour_index].pausing > 0
       THEN pc' = "pausing" /\ UNCHANGED pour_index
       ELSE NextPour
    /\ UNCHANGED <<writes, method, recipe, now, start_time, result, polls,
                   initial_weight, total_poured>>
    /\ ManualUnchanged

\* asyncio.sleep(pour.pausing) is over
PauseDone ==
    /\ pc = "pausing"
    /\ ~scanning
    /\ NextPour
    /\ UNCHANGED <<writes, method, recipe, now, start_time, result, polls,
                   initial_weight, total_poured>>
    /\ ManualUnchanged

\* client.brewer.stop()
BrewerStop(ok) ==
    pc = "brewer_stop" /\ ManualSend(PlainCommand(APP_BREWER_STOP, <<>>), ok, "return")

\* final_weight is read and the difference returned
ManualReturn ==
    /\ pc = "return"
    /\ ~scanning
    /\ total_poured' = Poured(recipe, initial_weight, status.scale.weight)
    /\ Ends("total_poured")
    /\ UNCHANGED <<writes, method, recipe, now, start_time, polls,
                   initial_weight, pour_index>>
    /\ ManualUnchanged

(***************************************************************************)
(* SpecManual: one execute() call on a connected session, while the device *)
(* reports and the link may drop                                           *)
(***************************************************************************)
MaxManualEvents == 2   \* notifications during one run

\* weight 20.0
FWeight20 == device_frame(HeaderTag, RD_CURRENT_WEIGHT2, <<0, 0, 160, 65>>)

\* grind only; one pour; a bloom with a pause and a second pour; grind and
\* pour; a first pour with flow rate 0; nothing at all
ManualRecipes ==
    { XBloomManualRecipe(<<>>, 50, 80),
      XBloomManualRecipe(<<PourStep(100, 93, 300, 0)>>, 0, 80),
      XBloomManualRecipe(<<PourStep(50, 93, 300, 30), PourStep(100, 93, 350, 0)>>, 0, 80),
      XBloomManualRecipe(<<PourStep(50, 93, 300, 0)>>, 50, 80),
      XBloomManualRecipe(<<PourStep(50, 0, 0, 0), PourStep(100, 93, 300, 0)>>, 0, 80),
      XBloomManualRecipe(<<>>, 0, 80) }

ManualBuffers ==
    { <<Seg("frame", FGrinderBegin)>>, <<Seg("frame", FGrinderStop)>>,
      <<Seg("frame", FWeight)>>, <<Seg("frame", FWeight20)>> }

CallExecute == \E rcp \in ManualRecipes : execute(rcp)

TrayLeft == \E ok \in BOOLEAN : MoveLeft(ok)

GrinderIn == \E ok \in BOOLEAN : EnterMode(ok)

StartGrinder == \E ok \in BOOLEAN : GrinderStart(ok)

StopGrinder == \E ok \in BOOLEAN : GrinderStop(ok)

TrayRight == \E ok \in BOOLEAN : MoveRight(ok)

StartBrewer == \E ok \in BOOLEAN : BrewerStart(ok)

StopBrewer == \E ok \in BOOLEAN : BrewerStop(ok)

DeliverManual ==
    /\ ndeliv < MaxManualEvents
    /\ pc # "done"
    /\ \E segs \in ManualBuffers : Deliver(segs)

NextManual ==
    \/ CallExecute
    \/ TrayLeft
    \/ GrinderIn
    \/ StartGrinder
    \/ GrindPoll
    \/ GrindSleep
    \/ StopGrinder
    \/ TrayRight
    \/ BrewerSettle
    \/ StartBrewer
    \/ PourDone
    \/ PauseDone
    \/ StopBrewer
    \/ ManualReturn
    \/ DropLink
    \/ DeliverManual
    \/ ScanStep

SpecManual == InitSession /\ [][NextManual]_vars

(***************************************************************************)
(* Properties of the manual execution                                      *)
(***************************************************************************)
\* the commands of a complete grind phase, and of a complete pour phase
GrindCommands ==
    <<SG_LEFT_SINGLE, APP_GRINDER_IN, APP_GRINDER_START, APP_GRINDER_STOP>>

PourCommands(rcp) ==
    <<SG_RIGHT_SINGLE>> \o Repeat(<<APP_BREWER_START>>, Len(rcp.pours))
        \o <<APP_BREWER_STOP>>

\* what the call in progress wrote after its grind phase
PourWrites ==
    LET k == IF has_grinding(recipe) THEN Len(GrindCommands) ELSE 0
    IN  SubSeq(writes, k + 1, Len(writes))

\* the j-th write of the pour phase, if it is a brewer-start, carries the
\* parameters of the pour before which it stands in the list
StartsInOrder ==
    \A j \in 2..Len(PourWrites) :
        j <= Len(recipe.pours) + 1 =>
            Slice(PourWrites[j].data, 10, 30) = BrewerStartPayload(recipe.pours[j - 1])

\* C21: an execute() of a recipe with pours first moves the tray to the
\* brewer, then writes one brewer-start per pour step, in list order and with
\* no brewer-stop in between, and after the last step one brewer-stop, which
\* is the last command of the call.
C21_PoursThenOneStop ==
    method = "execute" /\ has_pours(recipe) =>
        /\ IsPrefix(CommandsOf(PourWrites), PourCommands(recipe))
        /\ StartsInOrder
        /\ EndedUnfailed => CommandsOf(PourWrites) = PourCommands(recipe)

\* how many of the commands written so far are command
RECURSIVE CountOf(_, _)
CountOf(command, commands) ==
    IF commands = <<>> THEN 0
    ELSE (IF Head(commands) = command THEN 1 ELSE 0) + CountOf(command, Tail(commands))

\* what the call in progress wrote during its grind phase
GrindWrites ==
    SubSeq(writes, 1, IF Len(writes) < Len(GrindCommands)
                      THEN Len(writes) ELSE Len(GrindCommands))

\* the last look of the grind loop found the grinder not running, or the
\* 120 seconds over
StopIsDue ==
    /\ polls # <<>>
    /\ \/ polls[1] = Observed("poll", FALSE)
       \/ polls[1].kind = "timeout" /\ now - start_time >= 2 * GrindTimeout

\* C22: an execute() of a recipe with grinding writes, in this order,
\* tray-to-grinder, (grinder mode,) grinder start and one grinder stop, and no
\* second one; the stop is written only after a poll found the grinder not
\* running or the 120 seconds were over; all of this comes before any
\* tray-to-brewer or brewer-start.
C22_GrindThenOneStop ==
    method = "execute" /\ has_grinding(recipe) =>
        /\ IsPrefix(CommandsOf(GrindWrites), GrindCommands)
        /\ CountOf(APP_GRINDER_STOP, CommandsOf(writes)) <= 1
        /\ CountOf(APP_GRINDER_STOP, CommandsOf(writes)) = 1 => StopIsDue
        /\ pc = "grinder_stop" => StopIsDue
        /\ result = "total_poured" =>
               CountOf(APP_GRINDER_STOP, CommandsOf(writes)) = 1

\* the grinder was still running when the 120 seconds were over, and the
\* stop was written then
C22_Witness ==
    /\ method = "execute"
    /\ has_grinding(recipe)
    /\ CommandsOf(writes) = GrindCommands
    /\ polls = <<Observed("timeout", TRUE)>>
    /\ now - start_time = 2 * GrindTimeout
    /\ result = "total_poured"

\* the step in which execute() reads final_weight and returns
ManualReturns == method = "execute" /\ pc = "return" /\ pc' = "done"

\* C23 as stated: the result of execute() is the scale weight read before the
\* execution minus the scale weight read after it.
C23_BeforeMinusAfter ==
    [][ManualReturns =>
          total_poured' = F32Tenths(initial_weight) - F32Tenths(status.scale.weight)]_vars

\* C23, amended: the result of execute() is the scale weight read after the
\* execution minus the scale weight read before it, whatever the volumes of
\* the recipe are.
C23_AfterMinusBefore ==
    [][ManualReturns =>
          total_poured' = F32Tenths(status.scale.weight) - F32Tenths(initial_weight)]_vars

\* 10.5 g before, 20.0 g after a pour of 100 ml: 9.5 g returned
C23_Witness ==
    /\ method = "execute"
    /\ pc = "done"
    /\ result = "total_poured"
    /\ TotalVolume(recipe.pours) = 100
    /\ F32Tenths(initial_weight) = 105
    /\ F32Tenths(status.scale.weight) = 200
    /\ total_poured = 95

(***************************************************************************)
(* models/types.py: PourStep.__post_init__ and XBloomRecipe.__post_init__. *)
(* A flow rate is held in hundredths, a bean weight in tenths of a gram;   *)
(* the numbers are finite.                                                 *)
(***************************************************************************)
\* what a call that raised error leaves instead of a value
Raised(error) == [raised |-> error]

\* a PourStep check that takes flow rate 0 for out of range too
PourStepRaisesOnZeroFlow(p) ==
    \/ p.flow_rate < 300 \/ p.flow_rate > 350
    \/ p.temperature # 0 /\ (p.temperature < 40 \/ p.temperature > 100)
    \/ p.volume < 0
    \/ p.pausing < 0

\* whether PourStep.__post_init__ raises ValueError
PourStepRaises(p) ==
    \/ (p.flow_rate < 300 \/ p.flow_rate > 350) /\ p.flow_rate # 0
    \/ p.temperature # 0 /\ (p.temperature < 40 \/ p.temperature > 100)
    \/ p.volume < 0
    \/ p.pausing < 0

valid_rpms == {0, 60, 70, 80, 90, 100, 110, 120}

\* whether XBloomRecipe.__post_init__ raises ValueError
RecipeRaises(r) ==
    \/ ~(0 <= r.grind_size /\ r.grind_size <= 150) /\ r.grind_size # 0
    \/ r.rpm \notin valid_rpms
    \/ Len(r.pours) > 20
    \/ r.bean_weight < 0 \/ r.bean_weight > 1000

\* PourStep(volume, temperature, flow_rate, pausing), with its check
NewPourStep(a) ==
    LET p == PourStep(a.volume, a.temperature, a.flow_rate, a.pausing)
    IN  IF PourStepRaises(p) THEN Raised("ValueError") ELSE p

\* XBloomRecipe(grind_size=, total_water=, rpm=, cup_type=, bean_weight=,
\* pours=), with its check
NewRecipe(a) ==
    LET r == XBloomRecipe(a.grind_size, a.total_water, a.rpm, a.cup_type,
                          a.bean_weight, a.pours)
    IN  IF RecipeRaises(r) THEN Raised("ValueError") ELSE r

\* what building, encoding and parsing recipes leave alone
PureUnchanged ==
    /\ UNCHANGED <<codecVars, clientVars, notifVars, brewVars>>
    /\ UNCHANGED <<args, attempt, cleanup_on_disconnect, held, seen,
                   read_subscribed, connects, trace, waited, manualVars, reported, shown>>

\* the constructor named in p_in is called on the arguments in p_in
ConstructPourStep ==
    /\ p_pc = "given"
    /\ p_in.kind = "PourStep"
    /\ made' = NewPourStep(p_in)
    /\ p_pc' = "made"
    /\ UNCHANGED <<p_in, p_out, p_in2, made2, p_out2>>
    /\ PureUnchanged

ConstructRecipe ==
    /\ p_pc = "given"
    /\ p_in.kind = "XBloomRecipe"
    /\ made' = NewRecipe(p_in)
    /\ p_pc' = "made"
    /\ UNCHANGED <<p_in, p_out, p_in2, made2, p_out2>>
    /\ PureUnchanged

(***************************************************************************)
(* SpecBuild: one PourStep or one XBloomRecipe is constructed              *)
(***************************************************************************)
MaxPours == 21         \* longest pour list handed to XBloomRecipe

PourStepArgs ==
    [kind : {"PourStep"}, volume : {-1, 0, 200}, temperature : {-1, 0, 39, 40, 100, 101},
     flow_rate : {-10, 0, 290, 300, 325, 350, 360}, pausing : {-1, 0, 30}]

PourLists ==
    { Repeat(<<PourStep(10, 90, 300, 0)>>, n) : n \in {0, 1} \cup (19..MaxPours) }

RecipeArgs ==
    [kind : {"XBloomRecipe"}, grind_size : {-1, 0, 1, 150, 151}, total_water : {15},
     rpm : {-60, 0, 45, 60, 120, 130}, cup_type : {0}, bean_weight : {-1, 0, 155, 1000, 1001},
     pours : PourLists]

PureIdle == CodecOff /\ ClientNew /\ NotifIdle /\ BrewIdle /\ CallerIdle /\ ManualIdle

InitBuild ==
    /\ PureIdle
    /\ p_pc = "given"
    /\ p_in \in PourStepArgs \cup RecipeArgs
    /\ made = None
    /\ p_out = <<>>
    /\ p_in2 = None
    /\ made2 = None
    /\ p_out2 = <<>>

NextBuild == ConstructPourStep \/ ConstructRecipe

SpecBuild == InitBuild /\ [][NextBuild]_vars

\* the ranges as the specification gives them
InGrindRange(v) == 0 <= v /\ v <= 150
InRpmSet(v) == v \in {0, 60, 70, 80, 90, 100, 110, 120}
InDoseRange(v) == 0 <= v /\ v <= 1000
InTemperatureRange(v) == v = 0 \/ (40 <= v /\ v <= 100)
InFlowRange(v) == v = 0 \/ (300 <= v /\ v <= 350)

ArgsInRange(a) ==
    IF a.kind = "PourStep"
    THEN /\ InTemperatureRange(a.temperature)
         /\ InFlowRange(a.flow_rate)
         /\ a.volume >= 0
         /\ a.pausing >= 0
    ELSE /\ InGrindRange(a.grind_size)
         /\ InRpmSet(a.rpm)
         /\ Len(a.pours) <= 20
         /\ InDoseRange(a.bean_weight)

\* every field of the value made is the argument given for it
KeepsArgs(a, v) ==
    IF a.kind = "PourStep"
    THEN /\ v.volume = a.volume /\ v.temperature = a.temperature
         /\ v.flow_rate = a.flow_rate /\ v.pausing = a.pausing
    ELSE /\ v.grind_size = a.grind_size /\ v.rpm = a.rpm
         /\ v.bean_weight = a.bean_weight /\ v.pours = a.pours
         /\ v.total_water = a.total_water /\ v.cup_type = a.cup_type

FullRecipe(a) ==
    LET r == [grind_size |-> a.grind_size, total_water |-> a.total_water,
              rpm |-> a.rpm, cup_type |-> a.cup_type, name |-> a.name,
              bean_weight |-> a.bean_weight, id |-> a.id,
              adapted_model |-> a.adapted_model, machine_type |-> a.machine_type,
              pours |-> a.pours]
    IN  IF RecipeRaises(r) THEN Raised("ValueError") ELSE r

\* build_recipe_payload(made) is called: p_out gets the bytes, or the call
\* raises struct.error
Encode ==
    /\ p_pc = "given"
    /\ made' = FullRecipe(p_in)
    /\ IF PayloadRaises(made')
       THEN p_pc' = "raised" /\ p_out' = <<>>
       ELSE p_pc' = "encoded" /\ p_out' = build_recipe_payload(made')
    /\ UNCHANGED <<p_in, p_in2, made2, p_out2>>
    /\ PureUnchanged

\* the same for the second recipe
EncodeOther ==
    /\ p_pc = "encoded"
    /\ made2' = FullRecipe(p_in2)
    /\ IF PayloadRaises(made2')
       THEN p_pc' = "raised" /\ p_out2' = <<>>
       ELSE p_pc' = "both" /\ p_out2' = build_recipe_payload(made2')
    /\ UNCHANGED <<p_in, made, p_out, p_in2>>
    /\ PureUnchanged

MaxEncodePours == 2    \* longest pour list that is encoded

\* a pour step with every field given
Pour(volume, temperature, flow_rate, pausing, pattern, vibration) ==
    [PourStep(volume, temperature, flow_rate, pausing)
        EXCEPT !.pattern = pattern, !.vibration = vibration]

EncodePours ==
    { Pour(0, 0, 0, 0, 2, 0), Pour(100, 93, 300, 30, 2, 0), Pour(127, 93, 350, 0, 0, 3),
      Pour(128, 40, 300, 0, 1, 1), Pour(200, 93, 300, 300, 2, 2), Pour(254, 100, 325, 1, 2, 0),
      Pour(8128, 93, 300, 0, 2, 0) }

EncodePourLists == UNION { [1..n -> EncodePours] : n \in 0..MaxEncodePours }

EncodeArgs ==
    [grind_size : {60, 150}, total_water : {15, 30}, rpm : {0, 120}, cup_type : {0},
     name : {"Unknown"}, bean_weight : {150}, id : {0}, adapted_model : {"Original"},
     machine_type : {1}, pours : EncodePourLists]

\* the recipe itself, recipes that differ from it in one field the payload
\* leaves out, and recipes that differ from it in one field the payload holds
Twins(a) ==
    { a,
      [a EXCEPT !.bean_weight = 185], [a EXCEPT !.cup_type = 4],
      [a EXCEPT !.name = "Tea"], [a EXCEPT !.id = 7],
      [a EXCEPT !.adapted_model = "Studio"], [a EXCEPT !.machine_type = 2],
      [a EXCEPT !.grind_size = 61], [a EXCEPT !.rpm = 60],
      [a EXCEPT !.total_water = 16], [a EXCEPT !.pours = <<>>] }

InitEncode ==
    /\ PureIdle
    /\ p_pc = "given"
    /\ p_in \in EncodeArgs
    /\ p_in2 \in Twins(p_in)
    /\ made = None
    /\ made2 = None
    /\ p_out = <<>>
    /\ p_out2 = <<>>

NextEncode == Encode \/ EncodeOther

SpecEncode == InitEncode /\ [][NextEncode]_vars

\* the body of a payload: what stands between the length byte and the footer
BodyOf(bytes) == SubSeq(bytes, 2, Len(bytes) - 2)

\* max(1, ceil(volume / 127))
NumChunks(volume) == IF volume = 0 THEN 1 ELSE (volume + 126) \div 127

RECURSIVE SumChunks(_, _)
SumChunks(body, n) ==
    IF n = 0 THEN 0 ELSE body[4 * (n - 1) + 1] + SumChunks(body, n - 1)

\* body holds, for each of pours in order, the sub-records and the metadata
\* record of the pour; i is the 0-based position of the first of pours
RECURSIVE BodyMatches(_, _, _, _)
BodyMatches(body, pours, i, rpm) ==
    IF pours = <<>> THEN body = <<>>
    ELSE LET p == Head(pours)
             n == NumChunks(p.volume)
         IN  /\ Len(body) >= 4 * n + 4
             /\ \A k \in 1..n :
                    /\ body[4 * (k - 1) + 1] <= 127
                    /\ SubSeq(body, 4 * (k - 1) + 2, 4 * k)
                           = <<p.temperature, p.pattern, p.vibration>>
             /\ SumChunks(body, n) = p.volume
             /\ SubSeq(body, 4 * n + 1, 4 * n + 4)
                    = << (0 - p.pausing) % 256, 0,
                         IF i = 0 THEN rpm % 256 ELSE 0,
                         (p.flow_rate \div 10) % 256 >>
             /\ BodyMatches(SubSeq(body, 4 * n + 5, Len(body)), Tail(pours), i + 1, rpm)

\* C25: for a valid recipe the body build_recipe_payload produces holds, for
\* each pour in order, max(1, ceil(volume/127)) sub-records [chunk,
\* temperature, pattern, vibration] with chunks of at most 127 that sum to
\* the volume, then one metadata record [(-pausing) mod 256, 0, rpm mod 256
\* for the first pour and 0 for the others, flow byte]; the byte before the
\* body is its length.
C25_BodyLayout ==
    p_pc \in {"encoded", "both"} =>
        /\ BodyMatches(BodyOf(p_out), made.pours, 0, made.rpm)
        /\ p_out[1] = Len(BodyOf(p_out))

\* a first pour of 200 was split into 127 + 73, a second pour got rpm byte 0
C25_Witness ==
    /\ p_pc = "encoded"
    /\ made.rpm = 120
    /\ made.pours = <<Pour(200, 93, 300, 300, 2, 2), Pour(100, 93, 300, 30, 2, 0)>>
    /\ BodyOf(p_out) = <<127, 93, 2, 2, 73, 93, 2, 2, 212, 0, 120, 30,
                         100, 93, 2, 0, 226, 0, 0, 30>>

\* the two recipes agree on what the payload holds
SameEncodedFields(r1, r2) ==
    /\ r1.pours = r2.pours
    /\ r1.rpm = r2.rpm
    /\ r1.grind_size = r2.grind_size
    /\ r1.total_water = r2.total_water

\* C26: the payload is a function of the pour steps, rpm, grind size and
\* total water only: the same recipe encoded twice, and two recipes that
\* differ only in bean weight, cup type, name, id or model labels, give the
\* same bytes.
C26_PayloadDependsOnFour ==
    p_pc = "both" /\ SameEncodedFields(made, made2) => p_out = p_out2

\* two recipes of different bean weight were encoded to the same bytes
C26_Witness ==
    /\ p_pc = "both"
    /\ made.bean_weight # made2.bean_weight
    /\ made.pours # <<>>
    /\ p_out = p_out2

(***************************************************************************)
(* parse_recipe_json (models/recipes.py)                                   *)
(*                                                                         *)
(* A JSON value is a record [t, n, s]: an int (n), a float (n in tenths),  *)
(* a str (s, its characters) or None.  A dict is a function on its keys;   *)
(* a list is a sequence.  Doses are in tenths of a gram, flow rates in     *)
(* hundredths.                                                             *)
(***************************************************************************)
JInt(n) == [t |-> "int", n |-> n, s |-> <<>>]
JFloat(tenths) == [t |-> "float", n |-> tenths, s |-> <<>>]
JStr(s) == [t |-> "str", n |-> 0, s |-> s]
JNone == [t |-> "none", n |-> 0, s |-> <<>>]

\* dict.get(key, default)
Get(dct, key, default) == IF key \in DOMAIN dct THEN dct[key] ELSE default

\* bool(value), as the operator or tests it
Truthy(j) ==
    CASE j.t = "int" -> j.n # 0
      [] j.t = "float" -> j.n # 0
      [] j.t = "str" -> j.s # <<>>
      [] OTHER -> FALSE

\* a or b or c
Or3(a, b, c) == IF Truthy(a) THEN a ELSE IF Truthy(b) THEN b ELSE c

\* the result of a conversion: a number, or the exception raised
Value(n) == [ok |-> TRUE, n |-> n, err |-> ""]
Fails(err) == [ok |-> FALSE, n |-> 0, err |-> err]

Digits == <<"0", "1", "2", "3", "4", "5", "6", "7", "8", "9">>
LowerCase == <<"a", "b", "c", "d", "e", "f", "g", "h", "i", "j", "k", "l", "m",
               "n", "o", "p", "q", "r", "s", "t", "u", "v", "w", "x", "y", "z">>
UpperCase == <<"A", "B", "C", "D", "E", "F", "G", "H", "I", "J", "K", "L", "M",
               "N", "O", "P", "Q", "R", "S", "T", "U", "V", "W", "X", "Y", "Z">>

IsDigit(ch) == \E i \in 1..10 : Digits[i] = ch
DigitValue(ch) == (CHOOSE i \in 1..10 : Digits[i] = ch) - 1

\* str.upper() and str.lower()
Upper(s) ==
    [i \in 1..Len(s) |->
        IF \E k \in 1..26 : LowerCase[k] = s[i]
        THEN UpperCase[CHOOSE k \in 1..26 : LowerCase[k] = s[i]] ELSE s[i]]
Lower(s) ==
    [i \in 1..Len(s) |->
        IF \E k \in 1..26 : UpperCase[k] = s[i]
        THEN LowerCase[CHOOSE k \in 1..26 : UpperCase[k] = s[i]] ELSE s[i]]

\* str.strip()
RECURSIVE StripSpaces(_)
StripSpaces(s) ==
    IF s = <<>> THEN s
    ELSE IF Head(s) = " " THEN StripSpaces(Tail(s))
    ELSE IF s[Len(s)] = " " THEN StripSpaces(SubSeq(s, 1, Len(s) - 1))
    ELSE s

\* str.replace(ch, '')
RECURSIVE Without(_, _)
Without(s, ch) ==
    IF s = <<>> THEN s
    ELSE IF Head(s) = ch THEN Without(Tail(s), ch)
    ELSE <<Head(s)>> \o Without(Tail(s), ch)

\* str.isdigit()
AllDigits(s) == s # <<>> /\ \A i \in 1..Len(s) : IsDigit(s[i])

\* the number a string of digits denotes
RECURSIVE DigitsValue(_)
DigitsValue(s) ==
    IF s = <<>> THEN 0
    ELSE 10 * DigitsValue(SubSeq(s, 1, Len(s) - 1)) + DigitValue(s[Len(s)])

\* s without a leading sign
Unsigned(s) == IF s # <<>> /\ Head(s) \in {"+", "-"} THEN Tail(s) ELSE s
Signed(s, n) == IF s # <<>> /\ Head(s) = "-" THEN 0 - n ELSE n

\* int(str): blanks around, a sign, digits
IntOfStr(s) ==
    LET body == StripSpaces(s)
    IN  IF AllDigits(Unsigned(body))
        THEN Value(Signed(body, DigitsValue(Unsigned(body))))
        ELSE Fails("ValueError: invalid literal")

\* float(str), in tenths: blanks around, a sign, digits with at most one
\* point; the strings of the model have at most one digit after the point
TenthsOfStr(s) ==
    LET body == StripSpaces(s)
        u == Unsigned(body)
        dots == {i \in 1..Len(u) : u[i] = "."}
        whole == IF dots = {} THEN u ELSE SubSeq(u, 1, (CHOOSE i \in dots : TRUE) - 1)
        frac == IF dots = {} THEN <<>> ELSE SubSeq(u, (CHOOSE i \in dots : TRUE) + 1, Len(u))
    IN  IF /\ Cardinality(dots) <= 1
           /\ whole \o frac # <<>>
           /\ \A i \in 1..Len(whole) : IsDigit(whole[i])
           /\ \A i \in 1..Len(frac) : IsDigit(frac[i])
        THEN Value(Signed(body, 10 * DigitsValue(whole)
                                + (IF frac = <<>> THEN 0 ELSE DigitValue(frac[1]))))
        ELSE Fails("ValueError: invalid literal")

\* int(value)
ToInt(j) ==
    CASE j.t = "int" -> Value(j.n)
      [] j.t = "float" -> Value(IF j.n < 0 THEN 0 - ((0 - j.n) \div 10) ELSE j.n \div 10)
      [] j.t = "str" -> IntOfStr(j.s)
      [] OTHER -> Fails("TypeError")

\* float(value), in tenths
ToFloat(j) ==
    CASE j.t = "int" -> Value(10 * j.n)
      [] j.t = "float" -> Value(j.n)
      [] j.t = "str" -> TenthsOfStr(j.s)
      [] OTHER -> Fails("TypeError")

\* value == 1
IsOne(j) == (j.t = "int" /\ j.n = 1) \/ (j.t = "float" /\ j.n = 10)

\* PourPattern(value): the member of that value, ValueError when there is none
ToPourPattern(j) ==
    IF j.t = "int" /\ j.n \in {0, 1, 2} THEN Value(j.n)
    ELSE IF j.t = "float" /\ j.n \in {0, 10, 20} THEN Value(j.n \div 10)
    ELSE Fails("ValueError: not a valid PourPattern")

\* the decimal digits of a natural number
RECURSIVE NatChars(_)
NatChars(n) ==
    IF n < 10 THEN <<Digits[n + 1]>> ELSE NatChars(n \div 10) \o <<Digits[(n % 10) + 1]>>

\* str(value)
Str(j) ==
    CASE j.t = "str" -> j.s
      [] j.t = "int" -> IF j.n < 0 THEN <<"-">> \o NatChars(0 - j.n) ELSE NatChars(j.n)
      [] j.t = "float" ->
            LET a == IF j.n < 0 THEN 0 - j.n ELSE j.n
            IN  (IF j.n < 0 THEN <<"-">> ELSE <<>>)
                    \o NatChars(a \div 10) \o <<".">> \o NatChars(a % 10)
      [] OTHER -> <<"N", "o", "n", "e">>

IsRaised(x) == "raised" \in DOMAIN x

\* the first conversion of results that failed, 0 when none did
FirstFailed(results) ==
    IF \A i \in 1..Len(results) : results[i].ok THEN 0
    ELSE CHOOSE i \in 1..Len(results) :
             ~results[i].ok /\ \A k \in 1..(i - 1) : results[k].ok

VIBRATION_BEFORE == 1
VIBRATION_AFTER == 2
VIBRATION_BOTH == 3

\* one pass of the loop over raw_pours: the PourStep of p_data, or what is raised
ParsePour(p_data) ==
    LET vib_before == Get(p_data, "isEnableVibrationBefore", JInt(2))
        vib_after == Get(p_data, "isEnableVibrationAfter", JInt(2))
        vib == IF IsOne(vib_before) /\ IsOne(vib_after) THEN VIBRATION_BOTH
               ELSE IF IsOne(vib_before) THEN VIBRATION_BEFORE
               ELSE IF IsOne(vib_after) THEN VIBRATION_AFTER
               ELSE VIBRATION_NONE
        volume == ToInt(Get(p_data, "volume", JInt(0)))
        temperature == ToInt(Get(p_data, "temperature", JInt(93)))
        flow_rate == ToFloat(Or3(Get(p_data, "flowRate", JNone),
                                 Get(p_data, "flow_rate", JNone), JInt(0)))
        pausing == ToInt(Or3(Get(p_data, "pausing", JNone),
                             Get(p_data, "pause", JNone), JInt(0)))
        pattern == ToPourPattern(Get(p_data, "pattern", JInt(2)))
        results == <<volume, temperature, flow_rate, pausing, pattern>>
        step == Pour(volume.n, temperature.n, 10 * flow_rate.n, pausing.n, pattern.n, vib)
    IN  IF FirstFailed(results) # 0 THEN Raised(results[FirstFailed(results)].err)
        ELSE IF PourStepRaises(step) THEN Raised("ValueError")
        ELSE step

\* root.get('pourList') or root.get('pours') or root.get('steps') or []
RawPours(root) ==
    IF Get(root, "pourList", <<>>) # <<>> THEN root["pourList"]
    ELSE IF Get(root, "pours", <<>>) # <<>> THEN root["pours"]
    ELSE Get(root, "steps", <<>>)

\* dose_val after the string branch
DoseValue(root) ==
    LET dose_val == Get(root, "dose", JFloat(150))
        parsed == TenthsOfStr(Without(Lower(StripSpaces(dose_val.s)), "g"))
    IN  IF dose_val.t # "str" THEN dose_val
        ELSE IF parsed.ok THEN JFloat(parsed.n) ELSE JFloat(150)

CUP_X_POD == 1
CUP_X_DRIPPER == 2
CUP_OTHER == 3
CUP_TEA == 4

\* cup_val after the string branch
CupValue(root) ==
    LET cup_val == Get(root, "cupType", JInt(0))
        upper == Upper(cup_val.s)
    IN  IF cup_val.t # "str" THEN cup_val
        ELSE IF upper = <<"T", "E", "A">> THEN JInt(CUP_TEA)
        ELSE IF upper = <<"O", "T", "H", "E", "R">> THEN JInt(CUP_OTHER)
        ELSE IF upper = <<"X", "P", "O", "D">> THEN JInt(CUP_X_POD)
        ELSE IF upper = <<"X", "_", "D", "R", "I", "P", "P", "E", "R">> THEN JInt(CUP_X_DRIPPER)
        ELSE IF IntOfStr(cup_val.s).ok THEN JInt(IntOfStr(cup_val.s).n)
        ELSE JInt(0)

MODEL_UNKNOWN == 0
MODEL_ORIGINAL == 1
MODEL_STUDIO == 2

\* whether needle occurs in s
Contains(s, needle) ==
    \E i \in 1..(Len(s) - Len(needle) + 1) : SubSeq(s, i, i + Len(needle) - 1) = needle

\* MachineModel(n), ORIGINAL when there is no such member
ModelOf(n) == IF n \in {MODEL_UNKNOWN, MODEL_ORIGINAL, MODEL_STUDIO} THEN n ELSE MODEL_ORIGINAL

\* mt: every exception of this branch is caught
MachineType(root) ==
    LET mt_val == Get(root, "machineType", JInt(1))
    IN  IF mt_val.t = "str"
        THEN IF AllDigits(mt_val.s) THEN ModelOf(DigitsValue(mt_val.s))
             ELSE IF Contains(Upper(mt_val.s), <<"S", "T", "U", "D", "I", "O">>)
                  THEN MODEL_STUDIO
             ELSE MODEL_ORIGINAL
        ELSE IF ToInt(mt_val).ok THEN ModelOf(ToInt(mt_val).n) ELSE MODEL_ORIGINAL

\* parse_recipe_json(data): the XBloomRecipe, or what is raised
parse_recipe_json(data) ==
    LET root == Get(data, "recipeVo", data)
        raw_pours == RawPours(root)
        pours == [i \in 1..Len(raw_pours) |-> ParsePour(raw_pours[i])]
        bad == {i \in 1..Len(pours) : IsRaised(pours[i])}
        gs == Or3(Get(root, "grinderSize", JNone), Get(root, "grind_size", JNone), JInt(60))
        gw == Or3(Get(root, "grandWater", JNone), Get(root, "total_water", JNone), JInt(15))
        rp == Or3(Get(root, "rpm", JNone), JNone, JInt(60))
        nm == Or3(Get(root, "theName", JNone), Get(root, "name", JNone),
                  JStr(<<"U", "n", "k", "n", "o", "w", "n">>))
        tid == Or3(Get(root, "tableId", JNone), Get(root, "id", JNone), JInt(0))
        results == <<ToInt(gs), ToInt(gw), ToInt(rp), ToInt(CupValue(root)),
                     ToFloat(DoseValue(root)), ToInt(tid)>>
    IN  IF bad # {} THEN pours[CHOOSE i \in bad : \A k \in bad : i <= k]
        ELSE IF FirstFailed(results) # 0 THEN Raised(results[FirstFailed(results)].err)
        ELSE FullRecipe([grind_size |-> results[1].n, total_water |-> results[2].n,
                         rpm |-> results[3].n, cup_type |-> results[4].n,
                         name |-> Str(nm), bean_weight |-> results[5].n,
                         id |-> results[6].n,
                         adapted_model |-> Str(Get(root, "adaptedModel",
                                               JStr(<<"O", "r", "i", "g", "i", "n", "a", "l">>))),
                         machine_type |-> MachineType(root), pours |-> pours])

(***************************************************************************)
(* SpecParse: parse_recipe_json on a record and on a second record that is *)
(* the first one wrapped or with one key replaced by its alias             *)
(***************************************************************************)
Parse ==
    /\ p_pc = "given"
    /\ made' = parse_recipe_json(p_in)
    /\ p_pc' = "parsed"
    /\ UNCHANGED <<p_in, p_out, p_in2, made2, p_out2>>
    /\ PureUnchanged

ParseOther ==
    /\ p_pc = "parsed"
    /\ made2' = parse_recipe_json(p_in2)
    /\ p_pc' = "both"
    /\ UNCHANGED <<p_in, made, p_out, p_in2, p_out2>>
    /\ PureUnchanged

\* the characters of the strings of the records below
Chars50 == <<"5", "0">>
CharsFine == <<"f", "i", "n", "e">>
Chars15g == <<"1", "5", "g">>
Chars185G == <<" ", "1", "8", ".", "5", "G", " ">>
CharsTea == <<"t", "e", "a">>
CharsMug == <<"m", "u", "g">>
CharsStudio == <<"x", "B", "l", "o", "o", "m", " ", "S", "t", "u", "d", "i", "o">>

\* a dict of one key
Dict(key, value) == key :> value

TopValues ==
    {Dict("grinderSize", v) : v \in {JInt(50), JInt(0), JStr(Chars50), JStr(CharsFine),
                                      JNone, JFloat(505), JInt(500)}}
    \cup {Dict("grind_size", JInt(25))}
    \cup {Dict("grandWater", v) : v \in {JInt(100), JInt(0), JStr(CharsFine)}}
    \cup {Dict("rpm", v) : v \in {JInt(80), JInt(0), JInt(65), JStr(CharsFine)}}
    \cup {Dict("tableId", v) : v \in {JInt(7), JStr(CharsFine)}}
    \cup {Dict("dose", v) : v \in {JStr(Chars15g), JStr(Chars185G), JStr(CharsFine),
                                   JFloat(185), JNone}}
    \cup {Dict("cupType", v) : v \in {JStr(CharsTea), JStr(Chars50), JStr(CharsMug),
                                      JInt(2), JNone}}
    \cup {Dict("machineType", v) : v \in {JStr(<<"2">>), JStr(CharsStudio), JStr(<<"9">>),
                                          JInt(5), JNone}}
    \cup {Dict("theName", JStr(CharsTea)), Dict("adaptedModel", JInt(2))}

PourValues ==
    {Dict("volume", v) : v \in {JInt(10), JInt(0 - 1), JStr(Chars50), JStr(CharsFine), JNone}}
    \cup {Dict("temperature", v) : v \in {JInt(40), JNone}}
    \cup {Dict("flowRate", v) : v \in {JFloat(30), JStr(CharsFine)}}
    \cup {Dict("pausing", v) : v \in {JInt(5), JStr(CharsFine)}}
    \cup {Dict("pattern", v) : v \in {JInt(0), JInt(7), JStr(<<"2">>)}}
    \cup {Dict("isEnableVibrationBefore", JInt(1)) @@ Dict("isEnableVibrationAfter", JInt(1)),
          Dict("isEnableVibrationBefore", JInt(1)), Dict("isEnableVibrationAfter", JInt(1)),
          Dict("volume", JInt(200)) @@ Dict("pause", JInt(3)) @@ Dict("flow_rate", JFloat(35))}

\* records that give their pours under each of the three keys
PourRecords ==
    {Dict("pours", <<p>>) : p \in PourValues}
    \cup {Dict("pourList", <<Dict("volume", JInt(10))>>) @@ Dict("steps", <<Dict("volume", JInt(20))>>),
          Dict("pourList", <<>>) @@ Dict("steps", <<Dict("volume", JInt(20)), <<>>>>)}

\* records that have a recipeVo key already
WrappedRecords ==
    {Dict("recipeVo", Dict("grinderSize", JInt(50))),
     Dict("recipeVo", Dict("grinderSize", JInt(50))) @@ Dict("grinderSize", JInt(70))}

ParseRecords ==
    {<<>>} \cup TopValues \cup PourRecords \cup WrappedRecords
    \cup {a @@ b : a \in TopValues, b \in PourRecords}

\* {"recipeVo": R}
Wrap(R) == Dict("recipeVo", R)

\* R with key from replaced by key to
Rename(R, from, to) ==
    [k \in (DOMAIN R \ {from}) \cup {to} |-> IF k = to THEN R[from] ELSE R[k]]

\* the keys the parser reads in pairs: the key and its alias
TopAliases == {<<"grinderSize", "grind_size">>, <<"grandWater", "total_water">>}
PourAlias == <<"pausing", "pause">>

\* whether R gives a value under exactly one key of the pair
GivesOne(R, pair) == Cardinality(DOMAIN R \cap {pair[1], pair[2]}) = 1

\* R with the key of the pair it has replaced by the other one
Swap(R, pair) ==
    IF pair[1] \in DOMAIN R THEN Rename(R, pair[1], pair[2]) ELSE Rename(R, pair[2], pair[1])

\* R with the pause key of each of its pours replaced by the other one
SwapPours(R) ==
    [R EXCEPT !["pours"] =
        [i \in 1..Len(R["pours"]) |->
            IF GivesOne(R["pours"][i], PourAlias) THEN Swap(R["pours"][i], PourAlias)
            ELSE R["pours"][i]]]

HasPauseKey(R) ==
    /\ "pours" \in DOMAIN R
    /\ \E i \in 1..Len(R["pours"]) : GivesOne(R["pours"][i], PourAlias)

Relatives(R) ==
    {Wrap(R)}
    \cup {Swap(R, pair) : pair \in {q \in TopAliases : GivesOne(R, q)}}
    \cup (IF HasPauseKey(R) THEN {SwapPours(R)} ELSE {})

InitParse ==
    /\ PureIdle
    /\ p_pc = "given"
    /\ p_in \in ParseRecords
    /\ p_in2 \in Relatives(p_in)
    /\ made = None
    /\ made2 = None
    /\ p_out = <<>>
    /\ p_out2 = <<>>

NextParse == Parse \/ ParseOther

SpecParse == InitParse /\ [][NextParse]_vars

\* the second record is the first one wrapped, or the first one with a key
\* replaced by its alias
IsWrapped == DOMAIN p_in2 = {"recipeVo"} /\ DOMAIN p_in2["recipeVo"] = DOMAIN p_in
IsAliased ==
    \/ \E pair \in TopAliases : GivesOne(p_in, pair) /\ DOMAIN p_in2 = DOMAIN Swap(p_in, pair)
                                   /\ DOMAIN p_in2 # DOMAIN p_in
    \/ "recipeVo" \notin DOMAIN p_in2 /\ HasPauseKey(p_in) /\ DOMAIN p_in2 = DOMAIN p_in

\* C27: parsing is invariant under the wrapper and the aliases: parsing
\* {"recipeVo": R} gives what parsing R gives, and a record that gives a
\* value under grind_size, total_water or pause parses as the record that
\* gives it under grinderSize, grandWater or pausing.
C27_WrapperAndAliases ==
    p_pc = "both" /\ (IsWrapped \/ IsAliased) => made2 = made

\* the same for records that have no recipeVo key of their own
C27_UnwrappedRecords ==
    p_pc = "both" /\ (IsWrapped \/ IsAliased) /\ "recipeVo" \notin DOMAIN p_in
        => made2 = made

CoercionErrors ==
    {"TypeError", "ValueError: invalid literal", "ValueError: not a valid PourPattern"}

\* C28: parsing never raises because a value cannot be coerced: the field
\* gets its default instead.
C28_UncoercibleGivesDefault ==
    p_pc # "given" => ~(IsRaised(made) /\ made.raised \in CoercionErrors)

\* the same for the fields whose conversion is guarded: dose strings, cup
\* type strings and the machine type
C28_GuardedFields ==
    p_pc # "given" /\ DOMAIN p_in \subseteq {"dose", "cupType", "machineType"}
                   /\ (\A k \in DOMAIN p_in : p_in[k].t = "str")
        => /\ ~IsRaised(made)
           /\ made.bean_weight \in {150, 185}
           /\ made.cup_type \in {0, 50, CUP_TEA}
           /\ made.machine_type \in {MODEL_ORIGINAL, MODEL_STUDIO}

(***************************************************************************)
(* C30: a notification that ends inside a frame                            *)
(***************************************************************************)
\* the scan is at a header whose declared length exceeds the bytes that remain
AtPartialFrame ==
    /\ scanning
    /\ offset < Len(raw_data)
    /\ IsHeader(raw_data[offset + 1])
    /\ Len(raw_data) - offset >= 10
    /\ U32Exceeds(Slice(raw_data, offset + 5, offset + 9), Len(raw_data) - offset)

\* C30: when a notification buffer ends inside a frame, the frame is not
\* applied and the scan of the buffer stops there; nothing is kept: the
\* buffer that is scanned next holds the bytes of the next notification and
\* no others, so the frame is never completed by them.
C30_PartialFrameDropped ==
    [][/\ AtPartialFrame =>
              ~scanning' /\ UNCHANGED <<status, applied, called, offset>>
       /\ ndeliv' # ndeliv =>
              /\ raw_data' = Flatten(layout')
              /\ offset' = 0
       /\ layout # <<>> /\ layout[1].kind = "tail" =>
              \A i \in DOMAIN applied' : applied'[i].packet # FWeight]_vars

\* after a notification that ended inside the weight frame, the rest of the
\* frame came with a frame behind it: that frame was applied, the weight was not
C30_Witness ==
    /\ ScanDone
    /\ ndeliv = 2
    /\ LayoutKinds = <<"tail", "frame">>
    /\ AppliedPackets = <<FGrinderBegin>>
    /\ status.scale.weight = DeviceStatus.scale.weight

(***************************************************************************)
(* C31: the link is down at a step of the brew sequence                    *)
(***************************************************************************)
\* the call is about to send the command of one of its four steps; at step 3
\* the payload has been built
AtSendOfStep ==
    /\ pc \in {"idle", "step2", "step3", "step4"}
    /\ ~(pc = "step3" /\ PayloadRaises(recipe))

\* C31: when the transport is found disconnected at a step of the four-step
\* sequence, the call raises ConnectionError, writes no command of that step
\* or of a later one, and attempts no reconnect.
C31_DisconnectSurfaced ==
    [][/\ AtSendOfStep /\ pc' # pc /\ ~is_connected =>
              /\ pc' = "done"
              /\ result' = "ConnectionError"
              /\ writes' = writes
       /\ pc = "done" /\ result = "ConnectionError" =>
              /\ pc' = "done"
              /\ result' = result
              /\ writes' = writes
              /\ ~is_connected'
              /\ connects' = connects]_vars

\* the link dropped after the second step: two commands written, then the error
C31_Witness ==
    /\ pc = "done"
    /\ result = "ConnectionError"
    /\ method = "brew"
    /\ CommandsOf(writes) = <<APP_SET_BYPASS, APP_SET_CUP>>

(***************************************************************************)
(* C32: the length byte and the footer                                     *)
(***************************************************************************)
\* the payload is one length byte, the body and the two bytes of the footer
FramedPayload(bytes, rcp) ==
    /\ Len(bytes) >= 3
    /\ bytes[1] = Len(bytes) - 3
    /\ SubSeq(bytes, Len(bytes) - 1, Len(bytes))
           = <<rcp.grind_size % 256, (rcp.total_water * 10) % 256>>

\* C32: for every valid recipe build_recipe_payload succeeds and returns
\* 1 + body + 2 bytes, the first the length of the body, the last two
\* [grind_size mod 256, (total_water * 10) mod 256].
C32_EncodeSucceeds ==
    /\ p_pc # "raised"
    /\ p_pc \in {"encoded", "both"} => FramedPayload(p_out, made)

\* the same, for the calls that return
C32_FramedWhenReturned ==
    p_pc \in {"encoded", "both"} => FramedPayload(p_out, made)

(***************************************************************************)
(* C33: the scan of a notification comes to an end                         *)
(* _on_notification is synchronous code: once called it runs on, so every  *)
(* pass of its loop that can be made is made.                              *)
(***************************************************************************)
SpecScanLive == SpecScan /\ WF_vars(ScanStep)

\* the scan is at a header whose length field declares no bytes at all
AtZeroLength ==
    /\ scanning
    /\ offset < Len(raw_data)
    /\ IsHeader(raw_data[offset + 1])
    /\ Len(raw_data) - offset >= 10
    /\ Slice(raw_data, offset + 5, offset + 9) = <<0, 0, 0, 0>>

\* C33: the handling of a notification terminates for every finite buffer,
\* also when a header byte is followed by a length field that declares 0
\* bytes or fewer bytes than a header has.
C33_ScanTerminates == scanning ~> ~scanning

\* the same, but for the scans that come to a header declaring 0 bytes
C33_TerminatesUnlessZero == scanning ~> (~scanning \/ AtZeroLength)

(***************************************************************************)
(* C34: the operational states that frames lead to                         *)
(***************************************************************************)
\* C34: the operational state is always one of Unknown, Idle, Grinding,
\* Brewing, Paused: no frame moves it to Error or Sleeping, and once a frame
\* has moved it out of Unknown no frame moves it back.
C34_StatesReached ==
    [][/\ status.state \in {UNKNOWN, IDLE, GRINDING, BREWING, PAUSED}
       /\ status'.state \in {UNKNOWN, IDLE, GRINDING, BREWING, PAUSED}
       /\ status.state # UNKNOWN => status'.state # UNKNOWN]_vars

\* three notifications: the state went to Paused and from there to Idle
C34_Witness ==
    /\ ScanDone
    /\ ndeliv = 3
    /\ before.state = PAUSED
    /\ status.state = IDLE
    /\ CommandOf(applied[1].packet) = RD_Brewer_Stop

(***************************************************************************)
(* SpecSession: connects, disconnects and lost links of one client while   *)
(* the device reports what its grinder and its brewer do                   *)
(***************************************************************************)
MaxSessionEvents == 2    \* notifications during one run

SessionBuffers ==
    { <<Seg("frame", f)>> :
        f \in {FGrinderBegin, FGrinderStop, FBrewerBegin, FBrewerStop, FBrewerPause, FEnjoy} }

DeliverSession == ndeliv < MaxSessionEvents /\ \E segs \in SessionBuffers : Deliver(segs)

NextSession ==
    \/ CallConnect
    \/ ConnectTransport
    \/ SubscribeBoth
    \/ SendStop
    \/ SendQuit
    \/ ResetSleep
    \/ ConnectReturn
    \/ disconnect
    \/ StopNotify
    \/ TransportDisconnect
    \/ ToggleCleanup
    \/ DropLink
    \/ DeliverSession
    \/ ScanStep

SpecSession == InitLife /\ [][NextSession]_vars

\* C35: in every reachable status, state = Grinding implies
\* grinder.is_running, whatever frames arrived and whatever connects and
\* disconnects were made.
C35_GrindingMeansRunning == status.state = GRINDING => status.grinder.is_running

\* a session that connect() opened over the transport and on which a
\* grinder-begin frame arrived: Grinding, with the grinder running
C35_Witness ==
    /\ status.state = GRINDING
    /\ status.grinder.is_running
    /\ method = "connect"
    /\ pc = "idle"
    /\ result = "True"
    /\ trace # <<>>
    /\ trace[1].op = "connect"
    /\ ndeliv = 1

(***************************************************************************)
(* C36: what a waiting brew takes for the start of the brew                *)
(***************************************************************************)
\* C36: a waiting brew returns True only if a frame said that the brewer
\* runs (brewer-begin, coffee-start or in-brewer) after the call wrote its
\* execute command: a brewer.is_running left True by frames received before
\* never leads to success.
C36_SuccessNeedsFreshReport ==
    pc = "done" /\ method \in BrewMethods /\ wait_for_completion /\ result = "True"
        => reported

\* the same for the calls whose first look at the brewer found it not running
C36_WhenIdleAtFirstPoll ==
    (pc = "done" /\ method \in BrewMethods /\ wait_for_completion /\ result = "True"
        /\ ~polls[1].running)
        => reported

(***************************************************************************)
(* C37: the grinder is stopped only after it was seen running              *)
(***************************************************************************)
\* C37: in manual grinding, once the grinder-start command is written the
\* grinder-stop command is not written until the status has shown
\* grinder.is_running = True at least once or the cap of 120 seconds has
\* elapsed, however the grinder-begin notification and the polling interleave.
C37_StopAfterSeenRunning ==
    [][pc = "grinder_stop" /\ writes' # writes =>
           shown \/ polls[1].kind = "timeout"]_vars

(***************************************************************************)
(* C38: manual execution of recipes whose pours passed validation          *)
(***************************************************************************)
\* every pour of the recipe passed the check of PourStep
PoursValid(rcp) == \A i \in DOMAIN rcp.pours : ~PourStepRaises(rcp.pours[i])

\* C38: on a session that stays connected, manual execution of a recipe
\* whose pours passed the check of PourStep, a flow rate of 0 included,
\* returns without raising, and when it has pours its last command is the
\* brewer stop.
C38_ManualNeverRaises ==
    (method = "execute" /\ EndedUnfailed /\ PoursValid(recipe)) =>
        /\ result = "total_poured"
        /\ has_pours(recipe) =>
               WrittenCommand(writes[Len(writes)]) = APP_BREWER_STOP

\* the same for recipes without a pour of flow rate 0
C38_NonZeroFlow ==
    (/\ method = "execute" /\ EndedUnfailed /\ PoursValid(recipe)
     /\ \A i \in DOMAIN recipe.pours : recipe.pours[i].flow_rate # 0) =>
        /\ result = "total_poured"
        /\ has_pours(recipe) =>
               WrittenCommand(writes[Len(writes)]) = APP_BREWER_STOP

(***************************************************************************)
(* C39: numeric values a record gives explicitly, zero included            *)
(***************************************************************************)
\* the record gives an integer under key
GivesInt(root, key) == key \in DOMAIN root /\ root[key].t = "int"

\* the parsed recipe holds the integers the record gives under rpm,
\* grinderSize and grandWater, for the given integers from lowest on
HoldsGiven(root, rcp, lowest) ==
    /\ GivesInt(root, "rpm") /\ root["rpm"].n >= lowest => rcp.rpm = root["rpm"].n
    /\ GivesInt(root, "grinderSize") /\ root["grinderSize"].n >= lowest
           => rcp.grind_size = root["grinderSize"].n
    /\ GivesInt(root, "grandWater") /\ root["grandWater"].n >= lowest
           => rcp.total_water = root["grandWater"].n

\* C39: parsing keeps every numeric value the record gives explicitly and
\* that is in range, zero included: a record with rpm 0, grinderSize 0 or
\* grandWater 0 parses to a recipe that holds 0 in that field, not the
\* default of the field.
C39_GivenValuesKept ==
    (p_pc # "given" /\ ~IsRaised(made)) =>
        HoldsGiven(Get(p_in, "recipeVo", p_in), made, 0)

\* the same for the values other than zero
C39_NonZeroValuesKept ==
    (p_pc # "given" /\ ~IsRaised(made)) =>
        HoldsGiven(Get(p_in, "recipeVo", p_in), made, 1)

(***************************************************************************)
(* C40: connect() on a session that is connected                           *)
(***************************************************************************)
\* connect() is called
ConnectCalled == pc = "idle" /\ method' = "connect" /\ connects' = connects + 1

\* C40: connect() on a session whose transport is connected returns True
\* and does nothing on the transport: no connect call, no subscription and
\* no reset command; the status, a brew in progress included, stays as it
\* is.
C40_RepeatedConnectIsNoOp ==
    [][ConnectCalled /\ is_connected =>
           /\ pc' = "idle"
           /\ result' = "True"
           /\ trace' = <<>>
           /\ UNCHANGED <<is_connected, subscribed, read_subscribed, writes, status>>]_vars

\* connect() has returned True on a connected session while the status
\* said that the brewer runs
C40_Witness ==
    /\ method = "connect"
    /\ pc = "idle"
    /\ result = "True"
    /\ trace = <<>>
    /\ connects = 1
    /\ is_connected
    /\ writes = <<>>
    /\ status.brewer.is_running
    /\ status.state = BREWING

====
